---------------------------- MODULE Spec2Model ----------------------------
(***************************************************************************)
(* A model of stan::io::reader<T> (src/src/stan/io/reader.hpp): the two    *)
(* cursors pos_ and int_pos_ over the caller's buffers data_r_ and data_i_,*)
(* the accumulator lp the caller passes by reference, and one action per   *)
(* reader method.  Every action records the call it made (call), what the  *)
(* call produced (ret) and the cursors and accumulator it started from     *)
(* (pre), so that properties of a single call are state predicates.        *)
(*                                                                         *)
(* Scalars are modelled by integers.  An exception is modelled by its C++  *)
(* type and its message.  size_t is modelled as an unsigned type of        *)
(* SizeBits bits: its arithmetic is taken modulo 2^SizeBits.               *)
(***************************************************************************)
EXTENDS Integers, Sequences, FiniteSets, Bags, TLC

\* ------------------------------------------------------------- bounds
\* longest real buffer, longest integer buffer, largest dimension argument,
\* calls per stream (when every method may be called, when the methods of one
\* family may, when only scalar() and integer() may), width of size_t in the
\* model
MaxNr == 2
MaxNi == 1
MaxDim == 2
MaxCalls == 1
MaxFamilyCalls == 2
MaxExtractCalls == 4
SizeBits == 16

RealVals == {0, 1, 2}
ScalarVals == {0 - 2, 0 - 1, 0, 1, 2}
IntVals == {5, 12}
IntBounds == {3, 10}
LowerBounds == {0, 1}
UpperBounds == {1, 2}
Multipliers == {1, 2}
Backends == {"double", "var"}
Dims == 0..MaxDim

\* the views: streams of up to MaxViewLen reals, sizes up to MaxViewDim
MaxViewLen == 6

MaxViewDim == 3

\* calls made on a configuration value or on a sample configuration
MaxServiceCalls == 3

MaxConfigCalls == 4

ViewDims == 0..MaxViewDim

VARIABLES T, data_r, data_i, pos_, int_pos_, lp, call, ret, pre, ncalls

\* the services: a configuration value, a sample configuration, and the
\* record of the last call made on them
VARIABLES obj, config, scall, sret, spre

vars ==
  <<T, data_r, data_i, pos_, int_pos_, lp, call, ret, pre, ncalls, obj,
    config, scall, sret, spre>>

\* the reader and what is recorded of its last call
rvars == <<T, data_r, data_i, pos_, int_pos_, lp, call, ret, pre>>

svars == <<obj, config, scall, sret, spre>>

\* ------------------------------------------------------------- size_t
SizeMod == 2 ^ SizeBits

SizeT(x) == x % SizeMod

SeqsUpTo(S, n) == UNION {[1..k -> S] : k \in 0..n}

\* ------------------------------------------------- the accumulator's value
\* lp is a real number.  The log-Jacobian terms are sums of half integers,
\* of integer multiples of log 2 and of other logarithms, which are kept as
\* atoms: lin2 counts halves, log2 counts log 2, pos and neg are the bags
\* of atoms added and subtracted.
LpZero == [lin2 |-> 0, log2 |-> 0, pos |-> EmptyBag, neg |-> EmptyBag]

LpLin(x) == [LpZero EXCEPT !.lin2 = 2 * x]

LpHalves(h) == [LpZero EXCEPT !.lin2 = h]

LpLog2(c) == [LpZero EXCEPT !.log2 = c]

LpNeg(atom) == [LpZero EXCEPT !.neg = SetToBag({atom})]

LpAdd(a, b) ==
  [lin2 |-> a.lin2 + b.lin2, log2 |-> a.log2 + b.log2,
   pos |-> a.pos (+) b.pos, neg |-> a.neg (+) b.neg]

RECURSIVE LpSum(_, _)
LpSum(f(_), xs) ==
  IF xs = <<>> THEN LpZero ELSE LpAdd(f(Head(xs)), LpSum(f, Tail(xs)))

RECURSIVE SumSeq(_)
SumSeq(xs) == IF xs = <<>> THEN 0 ELSE Head(xs) + SumSeq(Tail(xs))

\* ------------------------------------------------------------- records
NullPtr == 0 - 1

\* the cursors and the accumulator a method works on
Cur == [pos |-> pos_, int_pos |-> int_pos_, lp |-> lp]

\* a call: the method, its size arguments k and n, its bound (or offset and
\* multiplier) arguments a and b, whether it takes lp, and its Jacobian
\* template argument
Call(op, k, n, a, b, haslp, jac) ==
  [op |-> op, k |-> k, n |-> n, a |-> a, b |-> b, haslp |-> haslp, jac |-> jac]

NoCall == Call("", 0, 0, 0, 0, FALSE, FALSE)

\* what a method produces: how it ended (st), the exception thrown (ex,
\* what), the cursors and the accumulator it leaves (s), and its result: an
\* integer (i), a view into data_r_ (ptr, the index of its first scalar) or
\* a value of the given shape (rows, cols) made by transform tf from the
\* scalars raw
Outcome(st, ex, what, s, i, ptr, rows, cols, raw, tf) ==
  [st |-> st, ex |-> ex, what |-> what, pos |-> s.pos, int_pos |-> s.int_pos,
   lp |-> s.lp, i |-> i, ptr |-> ptr, rows |-> rows, cols |-> cols,
   raw |-> raw, tf |-> tf]

Throw(s, ex, what) == Outcome("throw", ex, what, s, 0, NullPtr, 0, 0, <<>>, "")

\* a read outside the buffer that the operating system stops
Crash(s) == Outcome("crash", "", "", s, 0, NullPtr, 0, 0, <<>>, "")

OkInt(s, i) == Outcome("ok", "", "", s, i, NullPtr, 0, 0, <<>>, "int")

OkScalar(s, x, tf) == Outcome("ok", "", "", s, 0, NullPtr, 1, 1, <<x>>, tf)

OkView(s, ptr, rows, cols) ==
  Outcome("ok", "", "", s, 0, ptr, rows, cols, <<>>, "view")

OkValue(s, rows, cols, raw, tf) ==
  Outcome("ok", "", "", s, 0, NullPtr, rows, cols, raw, tf)

NoRet == Outcome("none", "", "", [pos |-> 0, int_pos |-> 0, lp |-> LpZero],
                 0, NullPtr, 0, 0, <<>>, "")

\* ------------------------------------------------------------- the stream
available == SizeT(Len(data_r) - pos_)

available_i == SizeT(Len(data_i) - int_pos_)

\* the scalars a view of len scalars starting at index ptr can show: those
\* of data_r_ inside the buffer, and whatever the memory holds outside it
Elems(ptr, len) ==
  {[j \in 1..len |-> IF ptr + j <= Len(data_r) THEN data_r[ptr + j] ELSE g[j]] :
     g \in [1..len -> IF ptr + len <= Len(data_r) THEN {0} ELSE RealVals]}

Outside(ptr, len) == len > 0 /\ ptr + len > Len(data_r)

\* scalar() with the cursor advanced even when nothing is left to read
scalar_advancing(s) ==
  IF s.pos >= Len(data_r)
    THEN Throw([s EXCEPT !.pos = SizeT(@ + 1)], "std::runtime_error",
               "no more scalars to read")
    ELSE OkScalar([s EXCEPT !.pos = SizeT(@ + 1)], data_r[s.pos + 1], "id")

\* integer() advancing both cursors
integer_moving_pos(s) ==
  IF s.int_pos >= Len(data_i)
    THEN Throw(s, "std::runtime_error", "no more integers to read.")
    ELSE OkInt([s EXCEPT !.int_pos = SizeT(@ + 1), !.pos = SizeT(@ + 1)],
               data_i[s.int_pos + 1])

integer(s) ==
  IF s.int_pos >= Len(data_i)
    THEN Throw(s, "std::runtime_error", "no more integers to read.")
    ELSE OkInt([s EXCEPT !.int_pos = SizeT(@ + 1)], data_i[s.int_pos + 1])

\* scalar() returning the next real without moving the cursor
scalar_peeking(s) ==
  IF s.pos >= Len(data_r)
    THEN Throw(s, "std::runtime_error", "no more scalars to read")
    ELSE OkScalar(s, data_r[s.pos + 1], "id")

scalar(s) ==
  IF s.pos >= Len(data_r)
    THEN Throw(s, "std::runtime_error", "no more scalars to read")
    ELSE OkScalar([s EXCEPT !.pos = SizeT(@ + 1)], data_r[s.pos + 1], "id")

\* ------------------------------------------------------------- actions
\* one call of a reader method: c is the call, o its outcome
Step(c, o) ==
  /\ ret.st # "crash"
  /\ call' = c
  /\ ret' = o
  /\ pre' = Cur
  /\ pos_' = o.pos
  /\ int_pos_' = o.int_pos
  /\ lp' = o.lp
  /\ ncalls' = ncalls + 1
  /\ UNCHANGED <<T, data_r, data_i>>
  /\ UNCHANGED svars

\* the overloads of a constrain method: without lp, and with lp under
\* either value of the template argument Jacobian
NoLp == {<<FALSE, FALSE>>}

WithLp == {<<TRUE, TRUE>>, <<TRUE, FALSE>>}

CurOf(o) == [pos |-> o.pos, int_pos |-> o.int_pos, lp |-> o.lp]

Do_integer ==
  \/ Step(Call("integer", 0, 0, 0, 0, FALSE, FALSE), integer(Cur))
  \/ \E md \in NoLp \cup WithLp :
       Step(Call("integer_constrain", 0, 0, 0, 0, md[1], md[2]), integer(Cur))

\* scalar_constrain(lp) adding the scalar to lp when Jacobian is set, as a
\* transform with a Jacobian term would
Do_scalar_adding_lp ==
  \/ Step(Call("scalar", 0, 0, 0, 0, FALSE, FALSE), scalar(Cur))
  \/ \E md \in NoLp \cup WithLp :
       LET o == scalar(Cur) IN
       Step(Call("scalar_constrain", 0, 0, 0, 0, md[1], md[2]),
            IF o.st = "ok" /\ md[1] /\ md[2]
              THEN [o EXCEPT !.lp = LpAdd(@, LpLin(o.raw[1]))] ELSE o)

Do_scalar ==
  \/ Step(Call("scalar", 0, 0, 0, 0, FALSE, FALSE), scalar(Cur))
  \/ \E md \in NoLp \cup WithLp :
       Step(Call("scalar_constrain", 0, 0, 0, 0, md[1], md[2]), scalar(Cur))

\* ------------------------------------------------------ bounded integers
\* integer_lb with the bound checked before the integer is consumed
integer_lb_validating_first(s, lb) ==
  IF s.int_pos < Len(data_i) /\ ~(data_i[s.int_pos + 1] >= lb)
    THEN Throw(s, "std::runtime_error",
               "required value greater than or equal to lb")
    ELSE integer(s)

\* integer_lub with the bounds compared after the integer is checked
integer_lub_comparing_last(s, lb, ub) ==
  LET o == integer(s) IN
  IF o.st # "ok" THEN o
  ELSE IF ~(o.i >= lb)
    THEN Throw(CurOf(o), "std::runtime_error",
               "required value greater than or equal to lb")
  ELSE IF ~(o.i <= ub)
    THEN Throw(CurOf(o), "std::runtime_error",
               "required value less than or equal to ub")
  ELSE IF lb > ub
    THEN Throw(CurOf(o), "std::runtime_error",
               "lower bound must be less than or equal to ub")
    ELSE o

integer_lb(s, lb) ==
  LET o == integer(s) IN
  IF o.st # "ok" THEN o
  ELSE IF ~(o.i >= lb)
    THEN Throw(CurOf(o), "std::runtime_error",
               "required value greater than or equal to lb")
    ELSE o

integer_ub(s, ub) ==
  LET o == integer(s) IN
  IF o.st # "ok" THEN o
  ELSE IF ~(o.i <= ub)
    THEN Throw(CurOf(o), "std::runtime_error",
               "required value less than or equal to ub")
    ELSE o

integer_lub(s, lb, ub) ==
  LET o == integer(s) IN
  IF o.st # "ok" THEN o
  ELSE IF lb > ub
    THEN Throw(CurOf(o), "std::runtime_error",
               "lower bound must be less than or equal to ub")
  ELSE IF ~(o.i >= lb)
    THEN Throw(CurOf(o), "std::runtime_error",
               "required value greater than or equal to lb")
  ELSE IF ~(o.i <= ub)
    THEN Throw(CurOf(o), "std::runtime_error",
               "required value less than or equal to ub")
    ELSE o

Do_integer_lb ==
  \E lb \in IntBounds :
    \/ Step(Call("integer_lb", 0, 0, lb, 0, FALSE, FALSE), integer_lb(Cur, lb))
    \/ \E md \in NoLp \cup WithLp :
         Step(Call("integer_lb_constrain", 0, 0, lb, 0, md[1], md[2]),
              integer_lb(Cur, lb))

Do_integer_ub ==
  \E ub \in IntBounds :
    \/ Step(Call("integer_ub", 0, 0, 0, ub, FALSE, FALSE), integer_ub(Cur, ub))
    \/ \E md \in NoLp \cup WithLp :
         Step(Call("integer_ub_constrain", 0, 0, 0, ub, md[1], md[2]),
              integer_ub(Cur, ub))

Do_integer_lub ==
  \E lb \in IntBounds, ub \in IntBounds :
    \/ Step(Call("integer_lub", 0, 0, lb, ub, FALSE, FALSE),
            integer_lub(Cur, lb, ub))
    \/ \E md \in NoLp \cup WithLp :
         Step(Call("integer_lub_constrain", 0, 0, lb, ub, md[1], md[2]),
              integer_lub(Cur, lb, ub))

\* ------------------------------------------------------------- views
\* pos_ += m, and the index of the scalar the returned reference refers to
scalar_ptr_increment(s, m) ==
  LET p == SizeT(s.pos + m) IN
  [s |-> [s EXCEPT !.pos = p], ptr |-> SizeT(p - m)]

\* vector(m) with the address taken after pos_ was advanced
vector_after_increment(s, m) ==
  IF m = 0 THEN OkView(s, NullPtr, m, 1)
  ELSE LET r == scalar_ptr_increment(s, m) IN OkView(r.s, r.s.pos, m, 1)

vector(s, m) ==
  IF m = 0 THEN OkView(s, NullPtr, m, 1)
  ELSE LET r == scalar_ptr_increment(s, m) IN OkView(r.s, r.ptr, m, 1)

row_vector(s, m) ==
  IF m = 0 THEN OkView(s, NullPtr, 1, m)
  ELSE LET r == scalar_ptr_increment(s, m) IN OkView(r.s, r.ptr, 1, m)

\* matrix(m, n) with the two dimensions given to the map in the other order
matrix_transposed(s, m, n) ==
  IF m = 0 \/ n = 0 THEN OkView(s, NullPtr, m, n)
  ELSE LET r == scalar_ptr_increment(s, SizeT(m * n)) IN
       OkView(r.s, r.ptr, n, m)

matrix(s, m, n) ==
  IF m = 0 \/ n = 0 THEN OkView(s, NullPtr, m, n)
  ELSE LET r == scalar_ptr_increment(s, SizeT(m * n)) IN
       OkView(r.s, r.ptr, m, n)

\* the coefficient in row i and column j (both from 0) of the view o: maps
\* of matrix_t, vector_t and row_vector_t are stored column by column
Coeff(o, i, j) == data_r[o.ptr + j * o.rows + i + 1]

\* the rows of the view o, each one the sequence of its coefficients
RowsOf(o) ==
  [i \in 1..o.rows |-> [j \in 1..o.cols |-> Coeff(o, i - 1, j - 1)]]

\* the longest view out of the buffer whose contents are followed: reading a
\* longer one (its length is a size_t that wrapped around) ends in a crash
MaxLoad == (MaxDim + 1) * (MaxDim + 1)

\* what reading the scalars of the result o can give: o with the scalars
\* read (raw), or a crash when some of them lie outside the buffer
Loaded(o) ==
  IF o.st # "ok" \/ o.tf # "view" THEN {o}
  ELSE IF Outside(o.ptr, o.rows * o.cols) /\ o.rows * o.cols > MaxLoad
    THEN {Crash(CurOf(o))}
  ELSE {[o EXCEPT !.raw = xs] : xs \in Elems(o.ptr, o.rows * o.cols)}
       \cup (IF Outside(o.ptr, o.rows * o.cols) THEN {Crash(CurOf(o))} ELSE {})

\* the result o copied into a value that owns its scalars
Copied(o) ==
  {IF x.st = "ok" THEN OkValue(CurOf(x), x.rows, x.cols, x.raw, "id") ELSE x :
     x \in Loaded(o)}

\* the indices of data_r_ that std_vector(m) calls coeffRef on to get
\* start_pos and end_pos
std_vector_refs(s, m) == IF m = 0 THEN {} ELSE {s.pos, SizeT(s.pos + m)}

std_vector(s, m) ==
  IF m = 0 THEN {OkValue(s, 0, 1, <<>>, "id")}
  ELSE Copied(OkView([s EXCEPT !.pos = SizeT(@ + m)], s.pos, m, 1))

var_vector(s, m) ==
  IF T = "var" /\ m = 0 THEN {OkValue(s, 0, 1, <<>>, "id")}
  ELSE Copied(vector(s, m))

var_row_vector(s, m) ==
  IF T = "var" /\ m = 0 THEN {OkValue(s, 1, 0, <<>>, "id")}
  ELSE Copied(row_vector(s, m))

var_matrix(s, m, n) ==
  IF T = "var" /\ (m = 0 \/ n = 0) THEN {OkValue(s, 0, 0, <<>>, "id")}
  ELSE Copied(matrix(s, m, n))

Do_std_vector ==
  \E m \in Dims : \E o \in std_vector(Cur, m) :
    Step(Call("std_vector", m, 0, 0, 0, FALSE, FALSE), o)

Do_vector ==
  \E m \in Dims :
    \/ Step(Call("vector", m, 0, 0, 0, FALSE, FALSE), vector(Cur, m))
    \/ \E md \in NoLp \cup WithLp :
         Step(Call("vector_constrain", m, 0, 0, 0, md[1], md[2]),
              vector(Cur, m))

Do_var_vector ==
  \E m \in Dims :
    \/ \E o \in var_vector(Cur, m) :
         Step(Call("var_vector", m, 0, 0, 0, FALSE, FALSE), o)
    \/ \E md \in WithLp, o \in (IF T = "var" THEN var_vector(Cur, m)
                                             ELSE {vector(Cur, m)}) :
         Step(Call("var_vector_constrain", m, 0, 0, 0, md[1], md[2]), o)

Do_row_vector ==
  \E m \in Dims :
    \/ Step(Call("row_vector", m, 0, 0, 0, FALSE, FALSE), row_vector(Cur, m))
    \/ \E md \in NoLp \cup WithLp :
         Step(Call("row_vector_constrain", m, 0, 0, 0, md[1], md[2]),
              row_vector(Cur, m))

Do_var_row_vector ==
  \E m \in Dims : \E o \in var_row_vector(Cur, m) :
    \/ Step(Call("var_row_vector", m, 0, 0, 0, FALSE, FALSE), o)
    \/ \E md \in WithLp :
         Step(Call("var_row_vector_constrain", m, 0, 0, 0, md[1], md[2]), o)

Do_matrix ==
  \E m \in Dims, n \in Dims :
    \/ Step(Call("matrix", m, n, 0, 0, FALSE, FALSE), matrix(Cur, m, n))
    \/ \E md \in NoLp \cup WithLp :
         Step(Call("matrix_constrain", m, n, 0, 0, md[1], md[2]),
              matrix(Cur, m, n))

Do_var_matrix ==
  \E m \in Dims, n \in Dims :
    \/ \E o \in var_matrix(Cur, m, n) :
         Step(Call("var_matrix", m, n, 0, 0, FALSE, FALSE), o)
    \/ \E md \in WithLp, o \in (IF T = "var" THEN var_matrix(Cur, m, n)
                                             ELSE {matrix(Cur, m, n)}) :
         Step(Call("var_matrix_constrain", m, n, 0, 0, md[1], md[2]), o)

\* --------------------------------------------- the math library's checks
\* stan::math::check_* throws std::domain_error unless the predicate holds
Abs(x) == IF x < 0 THEN 0 - x ELSE x

check_positive(xs) == \A j \in 1..Len(xs) : xs[j] > 0

check_greater_or_equal(xs, lb) == \A j \in 1..Len(xs) : xs[j] >= lb

check_less_or_equal(xs, ub) == \A j \in 1..Len(xs) : xs[j] <= ub

check_bounded(xs, lb, ub) == \A j \in 1..Len(xs) : lb <= xs[j] /\ xs[j] <= ub

\* ------------------------------------- the math library's log-Jacobians
\* -2 log(1 + e^n) for n >= 0
NegLog1pExp2(n) ==
  IF n = 0 THEN LpLog2(0 - 2)
  ELSE [LpZero EXCEPT !.neg = SetToBag({<<"log1p_exp", n>>})
                              (+) SetToBag({<<"log1p_exp", n>>})]

\* log of a natural number n >= 1
RECURSIVE LogNat(_)
LogNat(n) ==
  IF n = 1 THEN LpZero
  ELSE IF n % 2 = 0 THEN LpAdd(LpLog2(1), LogNat(n \div 2))
  ELSE [LpZero EXCEPT !.pos = SetToBag({<<"log", n>>})]

\* log(inv_logit(x)) + log(1 - inv_logit(x))
LogitTerm(x) == LpAdd(LpLin(Abs(x)), NegLog1pExp2(Abs(x)))

\* log(1 - tanh(x)^2)
CorrTerm(x) ==
  LpAdd(LpLog2(2), LpAdd(LpLin(2 * Abs(x)), NegLog1pExp2(2 * Abs(x))))

JExp(xs) == LpLin(SumSeq(xs))

JLub(xs, lb, ub) == LpSum(LAMBDA x : LpAdd(LogNat(ub - lb), LogitTerm(x)), xs)

JOffsetMultiplier(xs, mult) == LpSum(LAMBDA x : LogNat(Abs(mult)), xs)

JProb(xs) == LpSum(LogitTerm, xs)

JCorr(xs) == LpSum(CorrTerm, xs)

Never(xs) == FALSE

\* ---------------------------------------------- checks and transforms
\* a check method: the results `in` read, each validated by P
Checked(in, P(_), fn) ==
  {IF x.st = "ok" /\ ~P(x.raw) THEN Throw(CurOf(x), "std::domain_error", fn)
   ELSE x : x \in in}

\* a constrain method: the results `in` read, each transformed by tf into a
\* value of the given shape unless Bad, lp incremented by J when addlp
Constrained(in, rows, cols, tf, Bad(_), J(_), addlp) ==
  {IF x.st # "ok" THEN x
   ELSE IF Bad(x.raw) THEN Throw(CurOf(x), "std::domain_error", tf)
   ELSE OkValue([CurOf(x) EXCEPT !.lp = IF addlp THEN LpAdd(@, J(x.raw)) ELSE @],
                rows, cols, x.raw, tf) : x \in in}

\* ---------------------------------------------------- constrained scalars
Do_scalar_pos ==
  \/ \E o \in Checked({scalar(Cur)}, check_positive, "stan::io::scalar_pos") :
       Step(Call("scalar_pos", 0, 0, 0, 0, FALSE, FALSE), o)
  \/ \E md \in NoLp \cup WithLp :
       \E o \in Constrained({scalar(Cur)}, 1, 1, "positive_constrain", Never,
                            JExp, md[1] /\ md[2]) :
         Step(Call("scalar_pos_constrain", 0, 0, 0, 0, md[1], md[2]), o)

Do_scalar_lb ==
  \E lb \in LowerBounds :
    \/ \E o \in Checked({scalar(Cur)},
                        LAMBDA xs : check_greater_or_equal(xs, lb),
                        "stan::io::scalar_lb") :
         Step(Call("scalar_lb", 0, 0, lb, 0, FALSE, FALSE), o)
    \/ \E md \in NoLp \cup WithLp :
         \E o \in Constrained({scalar(Cur)}, 1, 1, "lb_constrain", Never,
                              JExp, md[1] /\ md[2]) :
           Step(Call("scalar_lb_constrain", 0, 0, lb, 0, md[1], md[2]), o)

Do_scalar_ub ==
  \E ub \in UpperBounds :
    \/ \E o \in Checked({scalar(Cur)},
                        LAMBDA xs : check_less_or_equal(xs, ub),
                        "stan::io::scalar_ub") :
         Step(Call("scalar_ub", 0, 0, 0, ub, FALSE, FALSE), o)
    \/ \E md \in NoLp \cup WithLp :
         \E o \in Constrained({scalar(Cur)}, 1, 1, "ub_constrain", Never,
                              JExp, md[1] /\ md[2]) :
           Step(Call("scalar_ub_constrain", 0, 0, 0, ub, md[1], md[2]), o)

Do_scalar_lub ==
  \E lb \in LowerBounds, ub \in UpperBounds :
    \/ \E o \in Checked({scalar(Cur)}, LAMBDA xs : check_bounded(xs, lb, ub),
                        "stan::io::scalar_lub") :
         Step(Call("scalar_lub", 0, 0, lb, ub, FALSE, FALSE), o)
    \/ \E md \in NoLp \cup WithLp :
         \E o \in Constrained({scalar(Cur)}, 1, 1, "lub_constrain",
                              LAMBDA xs : ~(lb < ub),
                              LAMBDA xs : JLub(xs, lb, ub), md[1] /\ md[2]) :
           Step(Call("scalar_lub_constrain", 0, 0, lb, ub, md[1], md[2]), o)

Do_scalar_offset_multiplier ==
  \E offset \in LowerBounds, multiplier \in Multipliers :
    \/ Step(Call("scalar_offset_multiplier", 0, 0, offset, multiplier,
                 FALSE, FALSE), scalar(Cur))
    \/ \E md \in NoLp \cup WithLp :
         \E o \in Constrained({scalar(Cur)}, 1, 1, "offset_multiplier_constrain",
                              LAMBDA xs : ~(multiplier > 0),
                              LAMBDA xs : JOffsetMultiplier(xs, multiplier),
                              md[1] /\ md[2]) :
           Step(Call("scalar_offset_multiplier_constrain", 0, 0, offset,
                     multiplier, md[1], md[2]), o)

Do_prob ==
  \/ \E o \in Checked({scalar(Cur)}, LAMBDA xs : check_bounded(xs, 0, 1),
                      "stan::io::prob") :
       Step(Call("prob", 0, 0, 0, 0, FALSE, FALSE), o)
  \/ \E md \in NoLp \cup WithLp :
       \E o \in Constrained({scalar(Cur)}, 1, 1, "prob_constrain", Never,
                            JProb, md[1] /\ md[2]) :
         Step(Call("prob_constrain", 0, 0, 0, 0, md[1], md[2]), o)

\* corr() checking its scalar against the bounds of a probability
Do_corr_with_prob_bounds ==
  \/ \E o \in Checked({scalar(Cur)}, LAMBDA xs : check_bounded(xs, 0, 1),
                      "stan::io::corr") :
       Step(Call("corr", 0, 0, 0, 0, FALSE, FALSE), o)
  \/ \E md \in NoLp \cup WithLp :
       \E o \in Constrained({scalar(Cur)}, 1, 1, "corr_constrain", Never,
                            JCorr, md[1] /\ md[2]) :
         Step(Call("corr_constrain", 0, 0, 0, 0, md[1], md[2]), o)

Do_corr ==
  \/ \E o \in Checked({scalar(Cur)}, LAMBDA xs : check_bounded(xs, 0 - 1, 1),
                      "stan::io::corr") :
       Step(Call("corr", 0, 0, 0, 0, FALSE, FALSE), o)
  \/ \E md \in NoLp \cup WithLp :
       \E o \in Constrained({scalar(Cur)}, 1, 1, "corr_constrain", Never,
                            JCorr, md[1] /\ md[2]) :
         Step(Call("corr_constrain", 0, 0, 0, 0, md[1], md[2]), o)

\* ---------------------------------------------------- constrained vectors
SumSq(xs) == SumSeq([j \in 1..Len(xs) |-> xs[j] * xs[j]])

check_unit_vector(xs) == SumSq(xs) = 1

check_simplex(xs) == SumSeq(xs) = 1 /\ \A j \in 1..Len(xs) : xs[j] >= 0

check_ordered(xs) == \A j \in 2..Len(xs) : xs[j] > xs[j - 1]

check_positive_ordered(xs) ==
  Len(xs) = 0 \/ (~(xs[1] < 0) /\ check_ordered(xs))

\* lp -= 0.5 * dot_self(y)
JUnitVector(xs) == LpHalves(0 - SumSq(xs))

JSimplex(xs) == IF xs = <<>> THEN LpZero ELSE LpNeg(<<"simplex", xs>>)

JOrdered(xs) == IF xs = <<>> THEN LpZero ELSE LpLin(SumSeq(Tail(xs)))

\* the m scalars a method hands to the math library: a view made by
\* vector(m), or for a var_ method the copy made by var_vector(m)
VecInput(s, m, var) == IF var THEN var_vector(s, m) ELSE Loaded(vector(s, m))

\* unit_vector without the test for size 0
unit_vector_unguarded(s, k, var) ==
  Checked(VecInput(s, k, var), check_unit_vector, "stan::io::unit_vector")

unit_vector(s, k, var) ==
  IF k = 0
    THEN {Throw(s, "std::invalid_argument",
                "io::unit_vector: unit vectors cannot be size 0.")}
    ELSE Checked(VecInput(s, k, var), check_unit_vector,
                 "stan::io::unit_vector")

\* unit_vector_constrain with lp set back to zero when the call fails
unit_vector_constrain_resetting_lp(s, k, var, addlp) ==
  IF k = 0
    THEN {Throw([s EXCEPT !.lp = LpZero], "std::invalid_argument",
                "io::unit_vector_constrain: unit vectors cannot be size 0.")}
    ELSE {IF x.st = "throw" THEN [x EXCEPT !.lp = LpZero] ELSE x :
            x \in Constrained(VecInput(s, k, var), k, 1,
                              "unit_vector_constrain",
                              LAMBDA xs : ~(SumSq(xs) > 0), JUnitVector,
                              addlp)}

unit_vector_constrain(s, k, var, addlp) ==
  IF k = 0
    THEN {Throw(s, "std::invalid_argument",
                "io::unit_vector_constrain: unit vectors cannot be size 0.")}
    ELSE Constrained(VecInput(s, k, var), k, 1, "unit_vector_constrain",
                     LAMBDA xs : ~(SumSq(xs) > 0), JUnitVector, addlp)

\* simplex with pos put back where it was when the check fails
simplex_restoring_pos(s, k, var) ==
  IF k = 0
    THEN {Throw(s, "std::invalid_argument",
                "io::simplex: simplexes cannot be size 0.")}
    ELSE {IF x.st = "throw" THEN Throw(s, x.ex, x.what) ELSE x :
            x \in Checked(VecInput(s, k, var), check_simplex,
                          "stan::io::simplex")}

simplex(s, k, var) ==
  IF k = 0
    THEN {Throw(s, "std::invalid_argument",
                "io::simplex: simplexes cannot be size 0.")}
    ELSE Checked(VecInput(s, k, var), check_simplex, "stan::io::simplex")

\* simplex_constrain reading as many scalars as the simplex is long
simplex_constrain_reading_k(s, k, var, addlp) ==
  IF k = 0
    THEN {Throw(s, "std::invalid_argument",
                "io::simplex_constrain: simplexes cannot be size 0.")}
    ELSE Constrained(VecInput(s, k, var), k, 1, "simplex_constrain", Never,
                     JSimplex, addlp)

simplex_constrain(s, k, var, addlp) ==
  IF k = 0
    THEN {Throw(s, "std::invalid_argument",
                "io::simplex_constrain: simplexes cannot be size 0.")}
    ELSE Constrained(VecInput(s, SizeT(k - 1), var), k, 1, "simplex_constrain",
                     Never, JSimplex, addlp)

ordered(s, k, var) ==
  Checked(VecInput(s, k, var), check_ordered, "stan::io::ordered")

ordered_constrain(s, k, var, addlp) ==
  Constrained(VecInput(s, k, var), k, 1, "ordered_constrain", Never, JOrdered,
              addlp)

positive_ordered(s, k, var) ==
  Checked(VecInput(s, k, var), check_positive_ordered,
          "stan::io::positive_ordered")

positive_ordered_constrain(s, k, var, addlp) ==
  Constrained(VecInput(s, k, var), k, 1, "positive_ordered_constrain", Never,
              JExp, addlp)

Do_unit_vector ==
  \E k \in Dims :
    \/ \E o \in unit_vector(Cur, k, FALSE) :
         Step(Call("unit_vector", k, 0, 0, 0, FALSE, FALSE), o)
    \/ \E o \in unit_vector(Cur, k, TRUE) :
         Step(Call("var_unit_vector", k, 0, 0, 0, FALSE, FALSE), o)

Do_unit_vector_constrain ==
  \E k \in Dims :
    \/ \E md \in NoLp \cup WithLp :
         \E o \in unit_vector_constrain(Cur, k, FALSE, md[1] /\ md[2]) :
           Step(Call("unit_vector_constrain", k, 0, 0, 0, md[1], md[2]), o)
    \/ \E md \in WithLp :
         \E o \in unit_vector_constrain(Cur, k, TRUE, md[1] /\ md[2]) :
           Step(Call("var_unit_vector_constrain", k, 0, 0, 0, md[1], md[2]), o)

Do_simplex ==
  \E k \in Dims :
    \/ \E o \in simplex(Cur, k, FALSE) :
         Step(Call("simplex", k, 0, 0, 0, FALSE, FALSE), o)
    \/ \E o \in simplex(Cur, k, TRUE) :
         Step(Call("var_simplex", k, 0, 0, 0, FALSE, FALSE), o)

Do_simplex_constrain ==
  \E k \in Dims :
    \/ \E md \in NoLp \cup WithLp :
         \E o \in simplex_constrain(Cur, k, FALSE, md[1] /\ md[2]) :
           Step(Call("simplex_constrain", k, 0, 0, 0, md[1], md[2]), o)
    \/ \E md \in WithLp :
         \E o \in simplex_constrain(Cur, k, TRUE, md[1] /\ md[2]) :
           Step(Call("var_simplex_constrain", k, 0, 0, 0, md[1], md[2]), o)

Do_ordered ==
  \E k \in Dims :
    \/ \E o \in ordered(Cur, k, FALSE) :
         Step(Call("ordered", k, 0, 0, 0, FALSE, FALSE), o)
    \/ \E o \in ordered(Cur, k, TRUE) :
         Step(Call("var_ordered", k, 0, 0, 0, FALSE, FALSE), o)

\* raw reals on which exp is exact in binary64
OrderedRaw == {0 - 800, 0}

\* exp in binary64 on OrderedRaw: exp(0) is 1, and exp(-800) is 0, its
\* real value lying below the least positive double
exp(x) == CASE x = 0 -> 1 [] x = 0 - 800 -> 0

\* the vector stan::math::ordered_constrain makes of xs
ordered_constrain_value(xs) ==
  LET y[i \in 1..Len(xs)] == IF i = 1 THEN xs[1] ELSE y[i - 1] + exp(xs[i])
  IN y

\* the vector stan::math::positive_ordered_constrain makes of xs
positive_ordered_constrain_value(xs) ==
  LET y[i \in 1..Len(xs)] ==
        IF i = 1 THEN exp(xs[1]) ELSE y[i - 1] + exp(xs[i])
  IN y

Do_ordered_constrain ==
  \E k \in Dims :
    \/ \E md \in NoLp \cup WithLp :
         \E o \in ordered_constrain(Cur, k, FALSE, md[1] /\ md[2]) :
           Step(Call("ordered_constrain", k, 0, 0, 0, md[1], md[2]), o)
    \/ \E md \in WithLp :
         \E o \in ordered_constrain(Cur, k, TRUE, md[1] /\ md[2]) :
           Step(Call("var_ordered_constrain", k, 0, 0, 0, md[1], md[2]), o)

Do_positive_ordered ==
  \E k \in Dims :
    \/ \E o \in positive_ordered(Cur, k, FALSE) :
         Step(Call("positive_ordered", k, 0, 0, 0, FALSE, FALSE), o)
    \/ \E o \in positive_ordered(Cur, k, TRUE) :
         Step(Call("var_positive_ordered", k, 0, 0, 0, FALSE, FALSE), o)

Do_positive_ordered_constrain ==
  \E k \in Dims, md \in NoLp \cup WithLp :
    \/ \E o \in positive_ordered_constrain(Cur, k, FALSE, md[1] /\ md[2]) :
         Step(Call("positive_ordered_constrain", k, 0, 0, 0, md[1], md[2]), o)
    \/ \E o \in positive_ordered_constrain(Cur, k, TRUE, md[1] /\ md[2]) :
         Step(Call("var_positive_ordered_constrain", k, 0, 0, 0, md[1], md[2]),
              o)

\* ---------------------------------------------------- constrained matrices
\* the entry in row r and column c of the column-major M-row matrix xs
El(xs, M, r, c) == xs[(c - 1) * M + r]

IsLowerTriangular(xs, M, N) ==
  \A r \in 1..M, c \in 1..N : c > r => El(xs, M, r, c) = 0

IsSymmetric(xs, K) ==
  \A r \in 1..K, c \in 1..K : El(xs, K, r, c) = El(xs, K, c, r)

RECURSIVE Det(_, _)
Det(A, n) ==
  IF n = 0 THEN 1
  ELSE SumSeq([c \in 1..n |->
         (IF c % 2 = 1 THEN 1 ELSE 0 - 1) * A[1, c]
           * Det([r \in 1..(n - 1), d \in 1..(n - 1) |->
                    A[r + 1, IF d < c THEN d ELSE d + 1]], n - 1)])

IsPosDefinite(xs, K) ==
  /\ IsSymmetric(xs, K)
  /\ \A j \in 1..K :
       Det([r \in 1..j, c \in 1..j |-> El(xs, K, r, c)], j) > 0

check_cholesky_factor(xs, M, N) ==
  /\ N <= M /\ N > 0
  /\ IsLowerTriangular(xs, M, N)
  /\ \A j \in 1..N : El(xs, M, j, j) > 0

check_cholesky_factor_corr(xs, M, N) ==
  /\ M = N
  /\ IsLowerTriangular(xs, M, N)
  /\ \A j \in 1..N : El(xs, M, j, j) > 0
  /\ \A r \in 1..M : SumSq([c \in 1..N |-> El(xs, M, r, c)]) = 1

check_cov_matrix(xs, M, N) == M = N /\ IsPosDefinite(xs, M)

check_corr_matrix(xs, M, N) ==
  /\ M = N
  /\ \A j \in 1..M : El(xs, M, j, j) = 1
  /\ IsPosDefinite(xs, M)

\* the index in the raw vector of the diagonal entry of row r, the lower
\* triangle being filled row by row
DiagAt(r) == (r * (r + 1)) \div 2

\* lp += sum of the logarithms of the diagonal
JCholeskyFactor(xs, N) == LpLin(SumSeq([r \in 1..N |-> xs[DiagAt(r)]]))

RECURSIVE LpTimes(_, _)
LpTimes(n, a) == IF n = 0 THEN LpZero ELSE LpAdd(a, LpTimes(n - 1, a))

\* lp += K log 2 + sum over k of (K - k + 1) log L(k, k), k from 0
JCovMatrix(xs, K) ==
  LpAdd(LpLog2(K), LpLin(SumSeq([r \in 1..K |-> (K - r + 2) * xs[DiagAt(r)]])))

\* 0.5 log(1 - tanh(x)^2)
HalfCorrTerm(x) ==
  LpAdd(LpLog2(1),
        LpAdd(LpHalves(2 * Abs(x)),
              IF x = 0 THEN LpLog2(0 - 1)
              ELSE LpNeg(<<"log1p_exp", 2 * Abs(x)>>)))

\* the partial correlations of row i (from 2) of the factor, in raw order
RowStart(i) == ((i - 1) * (i - 2)) \div 2

\* the terms 0.5 log(1 - sum of squares) of rows 3 and up: they vanish
\* where the entries to the left are 0
JCholeskyCorrRows(xs, K) ==
  LpSum(LAMBDA i :
          LpSum(LAMBDA j :
                  IF \A d \in 1..(j - 1) : xs[RowStart(i) + d] = 0 THEN LpZero
                  ELSE LpNeg(<<"log1m_sum_sqs",
                               SubSeq(xs, RowStart(i) + 1,
                                      RowStart(i) + j - 1)>>),
                [q \in 1..(i - 2) |-> q + 1]),
        [q \in 1..(K - 2) |-> q + 2])

JCholeskyCorr(xs, K) == LpAdd(JCorr(xs), JCholeskyCorrRows(xs, K))

\* the column (from 0) of the partial correlation at raw index q, the
\* strict lower triangle being filled column by column
RECURSIVE CpcColumn(_, _, _)
CpcColumn(q, K, k) ==
  IF q <= K - 1 - k THEN k ELSE CpcColumn(q - (K - 1 - k), K, k + 1)

\* lp += sum of log(1 - z^2) + 0.5 sum of (K - k - 2) log(1 - z^2)
JCorrMatrix(xs, K) ==
  LpAdd(JCorr(xs),
        LpSum(LAMBDA q : LpTimes(K - CpcColumn(q, K, 0) - 2,
                                 HalfCorrTerm(xs[q])),
              [q \in 1..Len(xs) |-> q]))

\* the m by n scalars a method hands to the math library: a view made by
\* matrix(m, n), or for a var_ method the copy made by var_matrix(m, n)
MatInput(s, m, n, var) ==
  IF var THEN var_matrix(s, m, n) ELSE Loaded(matrix(s, m, n))

\* a check method on a matrix: P is given the matrix and its shape
CheckedMatrix(in, P(_, _, _), fn) ==
  {IF x.st = "ok" /\ ~P(x.raw, x.rows, x.cols)
     THEN Throw(CurOf(x), "std::domain_error", fn)
   ELSE x : x \in in}

\* a check that rejects the empty matrix with an exception whose type
\* depends on the version of the math library
CheckedNonEmpty(in, P(_, _, _), fn) ==
  UNION {IF x.st = "ok" /\ x.rows * x.cols = 0
           THEN {Throw(CurOf(x), ex, fn) :
                   ex \in {"std::invalid_argument", "std::domain_error"}}
                \cup (IF P(x.raw, x.rows, x.cols) THEN {x} ELSE {})
         ELSE CheckedMatrix({x}, P, fn) : x \in in}

cholesky_factor_cov(s, M, N, var) ==
  CheckedMatrix(MatInput(s, M, N, var), check_cholesky_factor,
                "stan::io::cholesky_factor_cov")

\* a count for a dense M x N factor, which ignores the zeros above the
\* diagonal
CholeskyFactorCount_dense(M, N) == SizeT(M * N)

\* (N * (N + 1)) / 2 + (M - N) * N, in size_t
CholeskyFactorCount(M, N) ==
  SizeT((SizeT(N * (N + 1)) \div 2) + SizeT(SizeT(M - N) * N))

\* the math library compares M and N before it reads the vector it is given
cholesky_factor_cov_constrain(s, M, N, var, addlp) ==
  Constrained(IF var THEN var_vector(s, CholeskyFactorCount(M, N))
              ELSE IF M < N THEN {vector(s, CholeskyFactorCount(M, N))}
              ELSE Loaded(vector(s, CholeskyFactorCount(M, N))),
              M, N, "cholesky_factor_constrain", LAMBDA xs : M < N,
              LAMBDA xs : JCholeskyFactor(xs, N), addlp)

cholesky_factor_corr(s, K, var) ==
  CheckedMatrix(MatInput(s, K, K, var), check_cholesky_factor_corr,
                "stan::io::cholesky_factor_corr")

\* (K - 1) halved before it is multiplied by K
ChooseTwo_halving_first(K) == SizeT(K * (SizeT(K - 1) \div 2))

\* (K * (K - 1)) / 2, in size_t
ChooseTwo(K) == SizeT(K * SizeT(K - 1)) \div 2

\* haslp: the overload taking lp, which passes lp to the math library in
\* both branches of its test of Jacobian
cholesky_factor_corr_constrain(s, K, var, haslp) ==
  Constrained(VecInput(s, ChooseTwo(K), var), K, K, "cholesky_corr_constrain",
              Never, LAMBDA xs : JCholeskyCorr(xs, K), haslp)

cov_matrix(s, k) ==
  CheckedNonEmpty(MatInput(s, k, k, FALSE), check_cov_matrix,
                  "stan::io::cov_matrix")

\* k + (k * (k - 1)) / 2, in size_t
CovMatrixCount(k) == SizeT(k + ChooseTwo(k))

cov_matrix_constrain(s, k, var, addlp) ==
  Constrained(VecInput(s, CovMatrixCount(k), var), k, k,
              "cov_matrix_constrain", Never, LAMBDA xs : JCovMatrix(xs, k),
              addlp)

corr_matrix(s, k, var) ==
  CheckedNonEmpty(MatInput(s, k, k, var), check_corr_matrix,
                  "stan::math::corr_matrix")

corr_matrix_constrain(s, k, var, addlp) ==
  Constrained(VecInput(s, ChooseTwo(k), var), k, k, "corr_matrix_constrain",
              Never, LAMBDA xs : JCorrMatrix(xs, k), addlp)

Do_cholesky_factor_cov ==
  \E M \in Dims, N \in Dims :
    \/ \E o \in cholesky_factor_cov(Cur, M, N, FALSE) :
         Step(Call("cholesky_factor_cov", M, N, 0, 0, FALSE, FALSE), o)
    \/ \E o \in cholesky_factor_cov(Cur, M, N, TRUE) :
         Step(Call("var_cholesky_factor_cov", M, N, 0, 0, FALSE, FALSE), o)

Do_cholesky_factor_cov_constrain ==
  \E M \in Dims, N \in Dims :
    \/ \E md \in NoLp \cup WithLp :
         \E o \in cholesky_factor_cov_constrain(Cur, M, N, FALSE,
                                                md[1] /\ md[2]) :
           Step(Call("cholesky_factor_cov_constrain", M, N, 0, 0, md[1], md[2]),
                o)
    \/ \E md \in WithLp :
         \E o \in cholesky_factor_cov_constrain(Cur, M, N, TRUE,
                                                md[1] /\ md[2]) :
           Step(Call("var_cholesky_factor_cov_constrain", M, N, 0, 0, md[1],
                     md[2]), o)

Do_cholesky_factor_corr ==
  \E K \in Dims :
    \/ \E o \in cholesky_factor_corr(Cur, K, FALSE) :
         Step(Call("cholesky_factor_corr", K, K, 0, 0, FALSE, FALSE), o)
    \/ \E o \in cholesky_factor_corr(Cur, K, TRUE) :
         Step(Call("var_cholesky_factor_corr", K, K, 0, 0, FALSE, FALSE), o)

Do_cholesky_factor_corr_constrain ==
  \E K \in Dims, md \in NoLp \cup WithLp :
    \/ \E o \in cholesky_factor_corr_constrain(Cur, K, FALSE, md[1]) :
         Step(Call("cholesky_factor_corr_constrain", K, K, 0, 0, md[1], md[2]),
              o)
    \/ \E o \in cholesky_factor_corr_constrain(Cur, K, TRUE, md[1]) :
         Step(Call("var_cholesky_factor_corr_constrain", K, K, 0, 0, md[1],
                   md[2]), o)

Do_cov_matrix ==
  \E k \in Dims :
    \E o \in cov_matrix(Cur, k) :
      Step(Call("cov_matrix", k, k, 0, 0, FALSE, FALSE), o)

Do_cov_matrix_constrain ==
  \E k \in Dims :
    \/ \E md \in NoLp \cup WithLp :
         \E o \in cov_matrix_constrain(Cur, k, FALSE, md[1] /\ md[2]) :
           Step(Call("cov_matrix_constrain", k, k, 0, 0, md[1], md[2]), o)
    \/ \E md \in WithLp :
         \E o \in cov_matrix_constrain(Cur, k, TRUE, md[1] /\ md[2]) :
           Step(Call("var_cov_matrix_constrain", k, k, 0, 0, md[1], md[2]), o)

Do_corr_matrix ==
  \E k \in Dims :
    \/ \E o \in corr_matrix(Cur, k, FALSE) :
         Step(Call("corr_matrix", k, k, 0, 0, FALSE, FALSE), o)
    \/ \E o \in corr_matrix(Cur, k, TRUE) :
         Step(Call("var_corr_matrix", k, k, 0, 0, FALSE, FALSE), o)

Do_corr_matrix_constrain ==
  \E k \in Dims, md \in NoLp \cup WithLp :
    \/ \E o \in corr_matrix_constrain(Cur, k, FALSE, md[1] /\ md[2]) :
         Step(Call("corr_matrix_constrain", k, k, 0, 0, md[1], md[2]), o)
    \/ \E o \in corr_matrix_constrain(Cur, k, TRUE, md[1] /\ md[2]) :
         Step(Call("var_corr_matrix_constrain", k, k, 0, 0, md[1], md[2]), o)

\* ---------------------------------------------------- bounded containers
\* vector_lb .. matrix_offset_multiplier_constrain: the same method is
\* written for column vectors, row vectors and matrices (shape), each with
\* a var_ form.  n is used by the matrices only.
ContInput(shape, s, m, n, var) ==
  CASE shape = "vector" -> VecInput(s, m, var)
    [] shape = "row_vector" ->
         IF var THEN var_row_vector(s, m) ELSE Loaded(row_vector(s, m))
    [] shape = "matrix" -> MatInput(s, m, n, var)

\* a constrain method that transforms each scalar: the value has the shape
\* of what was read
ConstrainedEach(in, tf, Bad(_), J(_), addlp) ==
  UNION {IF x.st # "ok" THEN {x}
         ELSE Constrained({x}, x.rows, x.cols, tf, Bad, J, addlp) : x \in in}

\* the function name a check method reports; matrix_lub and var_matrix_lub
\* report that of row_vector_lub
CheckName(shape, kind) ==
  CASE kind = "lb" /\ shape = "vector" -> "stan::io::vector_lb"
    [] kind = "lb" /\ shape = "row_vector" -> "stan::io::row_vector_lb"
    [] kind = "lb" /\ shape = "matrix" -> "stan::io::matrix_lb"
    [] kind = "ub" /\ shape = "vector" -> "stan::io::vector_ub"
    [] kind = "ub" /\ shape = "row_vector" -> "stan::io::row_vector_ub"
    [] kind = "ub" /\ shape = "matrix" -> "stan::io::matrix_ub"
    [] kind = "lub" /\ shape = "vector" -> "stan::io::vector_lub"
    [] kind = "lub" /\ shape = "row_vector" -> "stan::io::row_vector_lub"
    [] kind = "lub" /\ shape = "matrix" -> "stan::io::row_vector_lub"

container_lb(shape, s, lb, m, n, var) ==
  Checked(ContInput(shape, s, m, n, var),
          LAMBDA xs : check_greater_or_equal(xs, lb), CheckName(shape, "lb"))

container_lb_constrain(shape, s, lb, m, n, var, haslp, jac) ==
  ConstrainedEach(ContInput(shape, s, m, n, var), "lb_constrain", Never, JExp,
                  haslp /\ jac)

\* var_vector_ub copies vector(m), the other var_ forms copy by var_vector,
\* var_row_vector and var_matrix
container_ub(shape, s, ub, m, n, var) ==
  Checked(IF shape = "vector" /\ var THEN Copied(vector(s, m))
          ELSE ContInput(shape, s, m, n, var),
          LAMBDA xs : check_less_or_equal(xs, ub), CheckName(shape, "ub"))

container_ub_constrain(shape, s, ub, m, n, var, haslp, jac) ==
  ConstrainedEach(ContInput(shape, s, m, n, var), "ub_constrain", Never, JExp,
                  haslp /\ jac)

container_lub(shape, s, lb, ub, m, n, var) ==
  Checked(ContInput(shape, s, m, n, var),
          LAMBDA xs : check_bounded(xs, lb, ub), CheckName(shape, "lub"))

\* matrix_lub_constrain and var_matrix_lub_constrain with lp do not test
\* Jacobian
container_lub_constrain(shape, s, lb, ub, m, n, var, haslp, jac) ==
  ConstrainedEach(ContInput(shape, s, m, n, var), "lub_constrain",
                  LAMBDA xs : ~(lb < ub), LAMBDA xs : JLub(xs, lb, ub),
                  IF shape = "matrix" THEN haslp ELSE haslp /\ jac)

\* no check is made: the view, or for a var_ form the copy, is returned
container_offset_multiplier(shape, s, m, n, var) ==
  CASE var -> ContInput(shape, s, m, n, TRUE)
    [] ~var /\ shape = "vector" -> {vector(s, m)}
    [] ~var /\ shape = "row_vector" -> {row_vector(s, m)}
    [] ~var /\ shape = "matrix" -> {matrix(s, m, n)}

\* row_vector_offset_multiplier_constrain and its var_ form with lp do not
\* test Jacobian
container_offset_multiplier_constrain(shape, s, multiplier, m, n, var, haslp, jac) ==
  ConstrainedEach(ContInput(shape, s, m, n, var),
                  "offset_multiplier_constrain",
                  LAMBDA xs : ~(multiplier > 0),
                  LAMBDA xs : JOffsetMultiplier(xs, multiplier),
                  IF shape = "row_vector" THEN haslp ELSE haslp /\ jac)

\* the sizes a method of the shape takes
Sizes(shape) == IF shape = "matrix" THEN Dims \X Dims ELSE Dims \X {0}

\* the source names both check overloads for column vectors vector_lb:
\* the one returning var_vector_t is recorded as var_vector_lb
Do_vector_lb ==
  \E lb \in LowerBounds, d \in Sizes("vector") :
    \/ \E o \in container_lb("vector", Cur, lb, d[1], d[2], FALSE) :
         Step(Call("vector_lb", d[1], d[2], lb, 0,
                   FALSE, FALSE), o)
    \/ \E o \in container_lb("vector", Cur, lb, d[1], d[2], TRUE) :
         Step(Call("var_vector_lb", d[1], d[2], lb, 0,
                   FALSE, FALSE), o)
    \/ \E md \in NoLp \cup WithLp :
         \E o \in container_lb_constrain("vector", Cur, lb, d[1], d[2], FALSE, md[1], md[2]) :
           Step(Call("vector_lb_constrain", d[1], d[2], lb, 0,
                     md[1], md[2]), o)
    \/ \E md \in NoLp \cup WithLp :
         \E o \in container_lb_constrain("vector", Cur, lb, d[1], d[2], TRUE, md[1], md[2]) :
           Step(Call("var_vector_lb_constrain", d[1], d[2], lb, 0,
                     md[1], md[2]), o)

Do_row_vector_lb ==
  \E lb \in LowerBounds, d \in Sizes("row_vector") :
    \/ \E o \in container_lb("row_vector", Cur, lb, d[1], d[2], FALSE) :
         Step(Call("row_vector_lb", d[1], d[2], lb, 0,
                   FALSE, FALSE), o)
    \/ \E o \in container_lb("row_vector", Cur, lb, d[1], d[2], TRUE) :
         Step(Call("var_row_vector_lb", d[1], d[2], lb, 0,
                   FALSE, FALSE), o)
    \/ \E md \in NoLp \cup WithLp :
         \E o \in container_lb_constrain("row_vector", Cur, lb, d[1], d[2], FALSE, md[1], md[2]) :
           Step(Call("row_vector_lb_constrain", d[1], d[2], lb, 0,
                     md[1], md[2]), o)
    \/ \E md \in NoLp \cup WithLp :
         \E o \in container_lb_constrain("row_vector", Cur, lb, d[1], d[2], TRUE, md[1], md[2]) :
           Step(Call("var_row_vector_lb_constrain", d[1], d[2], lb, 0,
                     md[1], md[2]), o)

Do_matrix_lb ==
  \E lb \in LowerBounds, d \in Sizes("matrix") :
    \/ \E o \in container_lb("matrix", Cur, lb, d[1], d[2], FALSE) :
         Step(Call("matrix_lb", d[1], d[2], lb, 0,
                   FALSE, FALSE), o)
    \/ \E o \in container_lb("matrix", Cur, lb, d[1], d[2], TRUE) :
         Step(Call("var_matrix_lb", d[1], d[2], lb, 0,
                   FALSE, FALSE), o)
    \/ \E md \in NoLp \cup WithLp :
         \E o \in container_lb_constrain("matrix", Cur, lb, d[1], d[2], FALSE, md[1], md[2]) :
           Step(Call("matrix_lb_constrain", d[1], d[2], lb, 0,
                     md[1], md[2]), o)
    \/ \E md \in NoLp \cup WithLp :
         \E o \in container_lb_constrain("matrix", Cur, lb, d[1], d[2], TRUE, md[1], md[2]) :
           Step(Call("var_matrix_lb_constrain", d[1], d[2], lb, 0,
                     md[1], md[2]), o)

Do_vector_ub ==
  \E ub \in UpperBounds, d \in Sizes("vector") :
    \/ \E o \in container_ub("vector", Cur, ub, d[1], d[2], FALSE) :
         Step(Call("vector_ub", d[1], d[2], 0, ub,
                   FALSE, FALSE), o)
    \/ \E o \in container_ub("vector", Cur, ub, d[1], d[2], TRUE) :
         Step(Call("var_vector_ub", d[1], d[2], 0, ub,
                   FALSE, FALSE), o)
    \/ \E md \in NoLp \cup WithLp :
         \E o \in container_ub_constrain("vector", Cur, ub, d[1], d[2], FALSE, md[1], md[2]) :
           Step(Call("vector_ub_constrain", d[1], d[2], 0, ub,
                     md[1], md[2]), o)
    \/ \E md \in NoLp \cup WithLp :
         \E o \in container_ub_constrain("vector", Cur, ub, d[1], d[2], TRUE, md[1], md[2]) :
           Step(Call("var_vector_ub_constrain", d[1], d[2], 0, ub,
                     md[1], md[2]), o)

Do_row_vector_ub ==
  \E ub \in UpperBounds, d \in Sizes("row_vector") :
    \/ \E o \in container_ub("row_vector", Cur, ub, d[1], d[2], FALSE) :
         Step(Call("row_vector_ub", d[1], d[2], 0, ub,
                   FALSE, FALSE), o)
    \/ \E o \in container_ub("row_vector", Cur, ub, d[1], d[2], TRUE) :
         Step(Call("var_row_vector_ub", d[1], d[2], 0, ub,
                   FALSE, FALSE), o)
    \/ \E md \in NoLp \cup WithLp :
         \E o \in container_ub_constrain("row_vector", Cur, ub, d[1], d[2], FALSE, md[1], md[2]) :
           Step(Call("row_vector_ub_constrain", d[1], d[2], 0, ub,
                     md[1], md[2]), o)
    \/ \E md \in NoLp \cup WithLp :
         \E o \in container_ub_constrain("row_vector", Cur, ub, d[1], d[2], TRUE, md[1], md[2]) :
           Step(Call("var_row_vector_ub_constrain", d[1], d[2], 0, ub,
                     md[1], md[2]), o)

Do_matrix_ub ==
  \E ub \in UpperBounds, d \in Sizes("matrix") :
    \/ \E o \in container_ub("matrix", Cur, ub, d[1], d[2], FALSE) :
         Step(Call("matrix_ub", d[1], d[2], 0, ub,
                   FALSE, FALSE), o)
    \/ \E o \in container_ub("matrix", Cur, ub, d[1], d[2], TRUE) :
         Step(Call("var_matrix_ub", d[1], d[2], 0, ub,
                   FALSE, FALSE), o)
    \/ \E md \in NoLp \cup WithLp :
         \E o \in container_ub_constrain("matrix", Cur, ub, d[1], d[2], FALSE, md[1], md[2]) :
           Step(Call("matrix_ub_constrain", d[1], d[2], 0, ub,
                     md[1], md[2]), o)
    \/ \E md \in NoLp \cup WithLp :
         \E o \in container_ub_constrain("matrix", Cur, ub, d[1], d[2], TRUE, md[1], md[2]) :
           Step(Call("var_matrix_ub_constrain", d[1], d[2], 0, ub,
                     md[1], md[2]), o)

Do_vector_lub ==
  \E lb \in LowerBounds, ub \in UpperBounds, d \in Sizes("vector") :
    \/ \E o \in container_lub("vector", Cur, lb, ub, d[1], d[2], FALSE) :
         Step(Call("vector_lub", d[1], d[2], lb, ub,
                   FALSE, FALSE), o)
    \/ \E o \in container_lub("vector", Cur, lb, ub, d[1], d[2], TRUE) :
         Step(Call("var_vector_lub", d[1], d[2], lb, ub,
                   FALSE, FALSE), o)
    \/ \E md \in NoLp \cup WithLp :
         \E o \in container_lub_constrain("vector", Cur, lb, ub, d[1], d[2], FALSE, md[1], md[2]) :
           Step(Call("vector_lub_constrain", d[1], d[2], lb, ub,
                     md[1], md[2]), o)
    \/ \E md \in NoLp \cup WithLp :
         \E o \in container_lub_constrain("vector", Cur, lb, ub, d[1], d[2], TRUE, md[1], md[2]) :
           Step(Call("var_vector_lub_constrain", d[1], d[2], lb, ub,
                     md[1], md[2]), o)

Do_row_vector_lub ==
  \E lb \in LowerBounds, ub \in UpperBounds, d \in Sizes("row_vector") :
    \/ \E o \in container_lub("row_vector", Cur, lb, ub, d[1], d[2], FALSE) :
         Step(Call("row_vector_lub", d[1], d[2], lb, ub,
                   FALSE, FALSE), o)
    \/ \E o \in container_lub("row_vector", Cur, lb, ub, d[1], d[2], TRUE) :
         Step(Call("var_row_vector_lub", d[1], d[2], lb, ub,
                   FALSE, FALSE), o)
    \/ \E md \in NoLp \cup WithLp :
         \E o \in container_lub_constrain("row_vector", Cur, lb, ub, d[1], d[2], FALSE, md[1], md[2]) :
           Step(Call("row_vector_lub_constrain", d[1], d[2], lb, ub,
                     md[1], md[2]), o)
    \/ \E md \in NoLp \cup WithLp :
         \E o \in container_lub_constrain("row_vector", Cur, lb, ub, d[1], d[2], TRUE, md[1], md[2]) :
           Step(Call("var_row_vector_lub_constrain", d[1], d[2], lb, ub,
                     md[1], md[2]), o)

Do_matrix_lub ==
  \E lb \in LowerBounds, ub \in UpperBounds, d \in Sizes("matrix") :
    \/ \E o \in container_lub("matrix", Cur, lb, ub, d[1], d[2], FALSE) :
         Step(Call("matrix_lub", d[1], d[2], lb, ub,
                   FALSE, FALSE), o)
    \/ \E o \in container_lub("matrix", Cur, lb, ub, d[1], d[2], TRUE) :
         Step(Call("var_matrix_lub", d[1], d[2], lb, ub,
                   FALSE, FALSE), o)
    \/ \E md \in NoLp \cup WithLp :
         \E o \in container_lub_constrain("matrix", Cur, lb, ub, d[1], d[2], FALSE, md[1], md[2]) :
           Step(Call("matrix_lub_constrain", d[1], d[2], lb, ub,
                     md[1], md[2]), o)
    \/ \E md \in NoLp \cup WithLp :
         \E o \in container_lub_constrain("matrix", Cur, lb, ub, d[1], d[2], TRUE, md[1], md[2]) :
           Step(Call("var_matrix_lub_constrain", d[1], d[2], lb, ub,
                     md[1], md[2]), o)

Do_vector_offset_multiplier ==
  \E offset \in LowerBounds, multiplier \in Multipliers, d \in Sizes("vector") :
    \/ \E o \in container_offset_multiplier("vector", Cur, d[1], d[2], FALSE) :
         Step(Call("vector_offset_multiplier", d[1], d[2], offset, multiplier,
                   FALSE, FALSE), o)
    \/ \E o \in container_offset_multiplier("vector", Cur, d[1], d[2], TRUE) :
         Step(Call("var_vector_offset_multiplier", d[1], d[2], offset, multiplier,
                   FALSE, FALSE), o)
    \/ \E md \in NoLp \cup WithLp :
         \E o \in container_offset_multiplier_constrain("vector", Cur, multiplier, d[1], d[2], FALSE,
                                                    md[1], md[2]) :
           Step(Call("vector_offset_multiplier_constrain", d[1], d[2], offset, multiplier,
                     md[1], md[2]), o)
    \/ \E md \in NoLp \cup WithLp :
         \E o \in container_offset_multiplier_constrain("vector", Cur, multiplier, d[1], d[2], TRUE,
                                                    md[1], md[2]) :
           Step(Call("var_vector_offset_multiplier_constrain", d[1], d[2], offset, multiplier,
                     md[1], md[2]), o)

Do_row_vector_offset_multiplier ==
  \E offset \in LowerBounds, multiplier \in Multipliers, d \in Sizes("row_vector") :
    \/ \E o \in container_offset_multiplier("row_vector", Cur, d[1], d[2], FALSE) :
         Step(Call("row_vector_offset_multiplier", d[1], d[2], offset, multiplier,
                   FALSE, FALSE), o)
    \/ \E o \in container_offset_multiplier("row_vector", Cur, d[1], d[2], TRUE) :
         Step(Call("var_row_vector_offset_multiplier", d[1], d[2], offset, multiplier,
                   FALSE, FALSE), o)
    \/ \E md \in NoLp \cup WithLp :
         \E o \in container_offset_multiplier_constrain("row_vector", Cur, multiplier, d[1], d[2], FALSE,
                                                    md[1], md[2]) :
           Step(Call("row_vector_offset_multiplier_constrain", d[1], d[2], offset, multiplier,
                     md[1], md[2]), o)
    \/ \E md \in NoLp \cup WithLp :
         \E o \in container_offset_multiplier_constrain("row_vector", Cur, multiplier, d[1], d[2], TRUE,
                                                    md[1], md[2]) :
           Step(Call("var_row_vector_offset_multiplier_constrain", d[1], d[2], offset, multiplier,
                     md[1], md[2]), o)

Do_matrix_offset_multiplier ==
  \E offset \in LowerBounds, multiplier \in Multipliers, d \in Sizes("matrix") :
    \/ \E o \in container_offset_multiplier("matrix", Cur, d[1], d[2], FALSE) :
         Step(Call("matrix_offset_multiplier", d[1], d[2], offset, multiplier,
                   FALSE, FALSE), o)
    \/ \E o \in container_offset_multiplier("matrix", Cur, d[1], d[2], TRUE) :
         Step(Call("var_matrix_offset_multiplier", d[1], d[2], offset, multiplier,
                   FALSE, FALSE), o)
    \/ \E md \in NoLp \cup WithLp :
         \E o \in container_offset_multiplier_constrain("matrix", Cur, multiplier, d[1], d[2], FALSE,
                                                    md[1], md[2]) :
           Step(Call("matrix_offset_multiplier_constrain", d[1], d[2], offset, multiplier,
                     md[1], md[2]), o)
    \/ \E md \in NoLp \cup WithLp :
         \E o \in container_offset_multiplier_constrain("matrix", Cur, multiplier, d[1], d[2], TRUE,
                                                    md[1], md[2]) :
           Step(Call("var_matrix_offset_multiplier_constrain", d[1], d[2], offset, multiplier,
                     md[1], md[2]), o)

\* ------------------------------------------------- services: validators
\* the types of the values; a double is counted in halves
ValueTypes == {"int", "double", "string"}

Vals(t) ==
  CASE t = "bool" -> {TRUE, FALSE}
    [] t = "int" -> {0 - 1, 0, 1}
    [] t = "double" -> {0 - 1, 0, 1, 2}
    [] t = "string" -> {"", "hmc", "nuts"}

\* T(): the value of a value-initialised T
Zero(t) ==
  CASE t = "bool" -> FALSE
    [] t = "int" -> 0
    [] t = "double" -> 0
    [] t = "string" -> ""

\* what a T holds that was never assigned: anything for an arithmetic type,
\* the empty string for std::string
Indeterminate(t) == IF t = "string" THEN {""} ELSE Vals(t)

\* a validator object: its class and, for one_of, the vector valid_
Validator(kind, valid) == [kind |-> kind, valid_ |-> valid]

noop == Validator("noop", <<>>)

is_positive == Validator("is_positive", <<>>)

\* the four constructors of one_of push 1 to 4 values
one_of(valid) == Validator("one_of", valid)

noop_validate(x) == TRUE

\* is_positive accepting 0
is_positive_validate_accepting_zero(x) == x >= 0

is_positive_validate(x) == x > 0

\* one_of comparing with the first valid value only
one_of_validate_first_only(valid_, x) == valid_[1] = x

one_of_validate(valid_, x) == \E n \in 1..Len(valid_) : valid_[n] = x

\* v.validate(x)
Validate(v, x) ==
  CASE v.kind = "noop" -> noop_validate(x)
    [] v.kind = "is_positive" -> is_positive_validate(x)
    [] v.kind = "one_of" -> one_of_validate(v.valid_, x)

\* ----------------------------------------------------- services: value
\* a value<T, V> object
Value(t, v, val, set, d, hasd) ==
  [st |-> "live", T |-> t, v_ |-> v, val_ |-> val, is_set_ |-> set,
   default_ |-> d, has_default_ |-> hasd]

\* no object yet, and what is left when a constructor throws
NoValue == [st |-> "none"]

FailedValue == [st |-> "failed"]

\* what a call produces: how it ended, the exception, the bool returned
\* (b, when the call is not void) and the arguments v_.validate was called
\* with
SRet(st, ex, what, void, b, validated) ==
  [st |-> st, ex |-> ex, what |-> what, void |-> void, b |-> b,
   validated |-> validated]

SVoid(validated) == SRet("ok", "", "", TRUE, FALSE, validated)

SBool(b, validated) == SRet("ok", "", "", FALSE, b, validated)

SThrow(ex, what, validated) == SRet("throw", ex, what, TRUE, FALSE, validated)

NoSRet == SRet("none", "", "", TRUE, FALSE, <<>>)

\* value(): v is the default-constructed V
value_0(t, v) ==
  {[obj |-> Value(t, v, u, FALSE, Zero(t), FALSE), ret |-> SVoid(<<>>)] :
     u \in Indeterminate(t)}

\* value(const V& v)
value_v(t, v) ==
  {[obj |-> Value(t, v, u, FALSE, Zero(t), FALSE), ret |-> SVoid(<<>>)] :
     u \in Indeterminate(t)}

\* value(const T& d): v is the default-constructed V
value_d(t, d, v) ==
  {[obj |-> Value(t, v, u, FALSE, d, TRUE), ret |-> SVoid(<<>>)] :
     u \in Indeterminate(t)}

\* value(const T& d, const V& v) without the validation of the default
value_dv_unvalidated(t, d, v) ==
  {[obj |-> Value(t, v, u, FALSE, d, TRUE), ret |-> SVoid(<<>>)] :
     u \in Indeterminate(t)}

\* value(const T& d, const V& v)
value_dv(t, d, v) ==
  IF ~Validate(v, d)
    THEN {[obj |-> FailedValue,
           ret |-> SThrow("std::invalid_argument",
                          "default value is not valid", <<d>>)]}
    ELSE {[obj |-> Value(t, v, u, FALSE, d, TRUE), ret |-> SVoid(<<d>>)] :
            u \in Indeterminate(t)}

\* set() storing the value again when it was already set
value_set_overwriting(o, val) ==
  [obj |-> [o EXCEPT !.is_set_ = TRUE, !.val_ = val], ret |-> SVoid(<<>>)]

value_set(o, val) ==
  IF o.is_set_
    THEN [obj |-> o,
          ret |-> SThrow("std::runtime_error", "value is set twice", <<>>)]
    ELSE [obj |-> [o EXCEPT !.is_set_ = TRUE, !.val_ = val],
          ret |-> SVoid(<<>>)]

\* validate() asking the validator about val_ whether it was set or not
value_validate_unguarded(o) == SBool(Validate(o.v_, o.val_), <<o.val_>>)

value_validate(o) ==
  IF ~o.is_set_ THEN SBool(TRUE, <<>>)
  ELSE SBool(Validate(o.v_, o.val_), <<o.val_>>)

value_validate_exists(o) ==
  IF ~o.is_set_ THEN SBool(FALSE, <<>>)
  ELSE SBool(Validate(o.v_, o.val_), <<o.val_>>)

\* a call on the services: the function, the member of the configuration it
\* is made on, its argument x, and for a constructor whether it is given a
\* default (then x) and a validator, and the validator v it starts with
SCall(op, member, x, hasd, hasv, v) ==
  [op |-> op, member |-> member, x |-> x, hasd |-> hasd, hasv |-> hasv,
   v |-> v]

NoSCall == SCall("", "", FALSE, FALSE, FALSE, noop)

NoServices ==
  /\ obj = NoValue
  /\ config = NoValue
  /\ scall = NoSCall
  /\ sret = NoSRet
  /\ spre = [obj |-> NoValue, config |-> NoValue]

\* no reader is in use
NoReader ==
  /\ T = "double"
  /\ data_r = <<>>
  /\ data_i = <<>>
  /\ pos_ = 0
  /\ int_pos_ = 0
  /\ lp = LpZero
  /\ call = NoCall
  /\ ret = NoRet
  /\ pre = [pos |-> 0, int_pos |-> 0, lp |-> LpZero]

\* one call on the services: c is the call, r what it produced, o and cfg
\* the value and the configuration it leaves
SStep(c, r, o, cfg) ==
  /\ scall' = c
  /\ sret' = r
  /\ spre' = [obj |-> obj, config |-> config]
  /\ obj' = o
  /\ config' = cfg
  /\ ncalls' = ncalls + 1
  /\ UNCHANGED rvars

\* the validator classes with a default constructor that accept a T
DefaultConstructible(t) ==
  IF t = "string" THEN {noop} ELSE {noop, is_positive}

\* the values one_of validators are built from
OneOfVals(t) == IF t = "string" THEN {"hmc", "nuts"} ELSE {0, 1}

Validators(t) ==
  DefaultConstructible(t)
    \cup {one_of(valid) : valid \in SeqsUpTo(OneOfVals(t), 4) \ {<<>>}}

Do_value ==
  /\ obj = NoValue
  /\ \E t \in ValueTypes :
       \/ \E v \in DefaultConstructible(t) : \E r \in value_0(t, v) :
            SStep(SCall("value", "", Zero(t), FALSE, FALSE, v), r.ret, r.obj,
                  config)
       \/ \E v \in Validators(t) : \E r \in value_v(t, v) :
            SStep(SCall("value", "", Zero(t), FALSE, TRUE, v), r.ret, r.obj,
                  config)
       \/ \E v \in DefaultConstructible(t), d \in Vals(t) :
            \E r \in value_d(t, d, v) :
              SStep(SCall("value", "", d, TRUE, FALSE, v), r.ret, r.obj,
                    config)
       \/ \E v \in Validators(t), d \in Vals(t) :
            \E r \in value_dv(t, d, v) :
              SStep(SCall("value", "", d, TRUE, TRUE, v), r.ret, r.obj,
                    config)

Do_value_set ==
  /\ obj.st = "live"
  /\ \E val \in Vals(obj.T) :
       LET r == value_set(obj, val) IN
       SStep(SCall("set", "", val, FALSE, FALSE, noop), r.ret, r.obj, config)

Do_value_validate ==
  /\ obj.st = "live"
  /\ SStep(SCall("validate", "", FALSE, FALSE, FALSE, noop),
           value_validate(obj), obj, config)

Do_value_validate_exists ==
  /\ obj.st = "live"
  /\ SStep(SCall("validate_exists", "", FALSE, FALSE, FALSE, noop),
           value_validate_exists(obj), obj, config)

\* v_.validate(x), called on the validator the value holds
Do_validator_validate ==
  /\ obj.st = "live"
  /\ \E x \in Vals(obj.T) :
       SStep(SCall("v_.validate", "", x, FALSE, FALSE, noop),
             SBool(Validate(obj.v_, x), <<x>>), obj, config)

\* --------------------------------------------- services: sample_config
\* the members of sample_config that are values, with their types
MemberType ==
  [do_random_inits_ |-> "bool", random_init_bounds_ |-> "double",
   algorithm_ |-> "string", metric_ |-> "string", max_treedepth_ |-> "int",
   int_time_ |-> "double", iter_ |-> "int", warmup_ |-> "int",
   num_samples_ |-> "int", thin_ |-> "int"]

Members == DOMAIN MemberType

AlgorithmVals == {"hmc", "nuts", "fixed_param", "other"}

MetricVals == {"dense_e", "diag_e", "unit_e", "other"}

\* what a member may be set to
SetVals(m) ==
  CASE m = "algorithm_" -> AlgorithmVals
    [] m = "metric_" -> MetricVals
    [] OTHER -> Vals(MemberType[m])

\* the object a value constructor makes whose val_ holds u[T]
Made(rs, u) ==
  (CHOOSE r \in rs : r.obj.st = "live" => r.obj.val_ = u[r.obj.T]).obj

\* sample_config(model): the values with their defaults; doubles are
\* counted in halves
sample_config ==
  {LET iter_ == Made(value_d("int", 2000, is_positive), u) IN
   [do_random_inits_ |-> Made(value_d("bool", TRUE, noop), u),
    random_init_bounds_ |-> Made(value_d("double", 2 * 2, is_positive), u),
    algorithm_ |->
      Made(value_dv("string", "nuts",
                    one_of(<<"hmc", "nuts", "fixed_param">>)), u),
    metric_ |->
      Made(value_dv("string", "diag_e",
                    one_of(<<"dense_e", "diag_e", "unit_e">>)), u),
    max_treedepth_ |-> Made(value_d("int", 10, is_positive), u),
    int_time_ |-> Made(value_d("double", 2 * 1, is_positive), u),
    iter_ |-> iter_,
    warmup_ |-> Made(value_d("int", iter_.default_ \div 2, is_positive), u),
    num_samples_ |-> Made(value_d("int", 1000, is_positive), u),
    thin_ |-> Made(value_d("int", 1, is_positive), u)] :
     u \in [bool : Vals("bool"), int : Vals("int"), double : Vals("double"),
            string : {""}]}

sample_config_validate(cfg) ==
  IF ~value_validate(cfg.do_random_inits_).b THEN FALSE
  ELSE IF ~value_validate(cfg.random_init_bounds_).b THEN FALSE
  ELSE IF ~value_validate(cfg.metric_).b THEN FALSE
  ELSE IF ~value_validate(cfg.max_treedepth_).b THEN FALSE
  ELSE IF ~value_validate(cfg.int_time_).b THEN FALSE
  ELSE IF ~value_validate(cfg.iter_).b THEN FALSE
  ELSE IF ~value_validate(cfg.warmup_).b THEN FALSE
  ELSE IF ~value_validate(cfg.num_samples_).b THEN FALSE
  ELSE IF ~value_validate(cfg.thin_).b THEN FALSE
  ELSE IF ~value_validate(cfg.max_treedepth_).b THEN FALSE
  ELSE IF ~value_validate(cfg.int_time_).b THEN FALSE
  ELSE IF cfg.algorithm_.val_ = "hmc" /\ cfg.max_treedepth_.is_set_ THEN FALSE
  ELSE IF cfg.algorithm_.val_ = "nuts" /\ cfg.int_time_.is_set_ THEN FALSE
  ELSE TRUE

Do_sample_config ==
  /\ config = NoValue
  /\ \E cfg \in sample_config :
       SStep(SCall("sample_config", "", FALSE, FALSE, FALSE, noop),
             SVoid(<<>>), obj, cfg)

\* config.member.set(x)
Do_config_set ==
  /\ config # NoValue
  /\ \E m \in Members : \E x \in SetVals(m) :
       LET r == value_set(config[m], x) IN
       SStep(SCall("set", m, x, FALSE, FALSE, noop), r.ret, obj,
             [config EXCEPT ![m] = r.obj])

Do_config_validate ==
  /\ config # NoValue
  /\ SStep(SCall("sample_config::validate", "", FALSE, FALSE, FALSE, noop),
           SBool(sample_config_validate(config), <<>>), obj, config)

\* ------------------------------------------------------------- behaviours
Init ==
  /\ T \in Backends
  /\ data_r \in SeqsUpTo(RealVals, MaxNr)
  /\ data_i \in SeqsUpTo(IntVals, MaxNi)
  /\ pos_ = 0
  /\ int_pos_ = 0
  /\ lp = LpZero
  /\ call = NoCall
  /\ ret = NoRet
  /\ pre = [pos |-> 0, int_pos |-> 0, lp |-> LpZero]
  /\ ncalls = 0
  /\ NoServices

Extract == Do_integer \/ Do_scalar

Integers_ == Do_integer_lb \/ Do_integer_ub \/ Do_integer_lub

Views ==
  \/ Do_std_vector \/ Do_vector \/ Do_var_vector \/ Do_row_vector
  \/ Do_var_row_vector \/ Do_matrix \/ Do_var_matrix

Scalars ==
  \/ Do_scalar_pos \/ Do_scalar_lb \/ Do_scalar_ub \/ Do_scalar_lub
  \/ Do_scalar_offset_multiplier \/ Do_prob \/ Do_corr

Vectors ==
  \/ Do_unit_vector \/ Do_unit_vector_constrain \/ Do_simplex
  \/ Do_simplex_constrain \/ Do_ordered \/ Do_ordered_constrain
  \/ Do_positive_ordered \/ Do_positive_ordered_constrain

Matrices ==
  \/ Do_cholesky_factor_cov \/ Do_cholesky_factor_cov_constrain
  \/ Do_cholesky_factor_corr \/ Do_cholesky_factor_corr_constrain
  \/ Do_cov_matrix \/ Do_cov_matrix_constrain \/ Do_corr_matrix
  \/ Do_corr_matrix_constrain

Containers ==
  \/ Do_vector_lb \/ Do_row_vector_lb \/ Do_matrix_lb \/ Do_vector_ub
  \/ Do_row_vector_ub \/ Do_matrix_ub \/ Do_vector_lub \/ Do_row_vector_lub
  \/ Do_matrix_lub \/ Do_vector_offset_multiplier
  \/ Do_row_vector_offset_multiplier \/ Do_matrix_offset_multiplier

Next ==
  /\ ncalls < MaxCalls
  /\ (Extract \/ Integers_ \/ Views \/ Scalars \/ Vectors \/ Matrices
        \/ Containers)

\* every method, on every stream
Spec == Init /\ [][Next]_vars

NextExtract == ncalls < MaxExtractCalls /\ Extract

\* scalar() and integer() only
SpecExtract == Init /\ [][NextExtract]_vars

NextIntegers == ncalls < MaxFamilyCalls /\ (Do_integer \/ Integers_)

\* the methods reading the integer buffer
SpecIntegers == Init /\ [][NextIntegers]_vars

NextVectors == ncalls < MaxFamilyCalls /\ (Do_scalar \/ Do_vector \/ Vectors)

InitVectors == Init /\ data_i = <<>>

\* the constrained vectors, on streams without integers
SpecVectors == InitVectors /\ [][NextVectors]_vars

NextMatrices == ncalls < MaxFamilyCalls /\ (Do_scalar \/ Matrices)

InitMatrices == Init /\ data_i = <<>>

\* the constrained matrices, on streams without integers
SpecMatrices == InitMatrices /\ [][NextMatrices]_vars

\* the streams 1, 2, ..., L, in which a real tells its index
InitViews ==
  /\ T \in Backends
  /\ data_r \in {[j \in 1..L |-> j] : L \in 0..MaxViewLen}
  /\ data_i = <<>>
  /\ pos_ = 0
  /\ int_pos_ = 0
  /\ lp = LpZero
  /\ call = NoCall
  /\ ret = NoRet
  /\ pre = [pos |-> 0, int_pos |-> 0, lp |-> LpZero]
  /\ ncalls = 0
  /\ NoServices

Do_vector_view ==
  \E m \in ViewDims :
    Step(Call("vector", m, 0, 0, 0, FALSE, FALSE), vector(Cur, m))

Do_row_vector_view ==
  \E m \in ViewDims :
    Step(Call("row_vector", m, 0, 0, 0, FALSE, FALSE), row_vector(Cur, m))

Do_matrix_view ==
  \E m \in ViewDims, n \in ViewDims :
    Step(Call("matrix", m, n, 0, 0, FALSE, FALSE), matrix(Cur, m, n))

NextViews ==
  /\ ncalls < MaxFamilyCalls
  /\ (Do_scalar \/ Do_vector_view \/ Do_row_vector_view \/ Do_matrix_view)

\* scalar(), vector(), row_vector() and matrix() with sizes up to
\* MaxViewDim, on the streams 1, 2, ..., L
SpecViews == InitViews /\ [][NextViews]_vars

\* streams with reals on both sides of every bound
InitScalars ==
  /\ T \in Backends
  /\ data_r \in SeqsUpTo(ScalarVals, MaxNr)
  /\ data_i \in SeqsUpTo(IntVals, MaxNi)
  /\ pos_ = 0
  /\ int_pos_ = 0
  /\ lp = LpZero
  /\ call = NoCall
  /\ ret = NoRet
  /\ pre = [pos |-> 0, int_pos |-> 0, lp |-> LpZero]
  /\ ncalls = 0
  /\ NoServices

NextScalars == ncalls < MaxFamilyCalls /\ (Do_integer \/ Do_scalar \/ Scalars)

\* integer() and the methods reading one scalar
SpecScalars == InitScalars /\ [][NextScalars]_vars

NextPlain ==
  /\ ncalls < MaxFamilyCalls
  /\ (Do_integer \/ Integers_ \/ Do_scalar \/ Do_vector \/ Do_row_vector
        \/ Do_matrix \/ Do_scalar_pos)

\* the methods that apply no transform, and scalar_pos, which changes lp
SpecPlain == Init /\ [][NextPlain]_vars

NextAccumulate ==
  /\ ncalls < MaxFamilyCalls
  /\ (Do_scalar_lb \/ Do_scalar_lub \/ Do_unit_vector_constrain)

\* methods that add to lp and can fail: for want of a real, on their
\* arguments, or on the reals they read
SpecAccumulate == InitVectors /\ [][NextAccumulate]_vars

NextCursors ==
  \/ /\ ncalls < MaxCalls
     /\ (Do_integer \/ Do_scalar)
  \/ /\ MaxCalls <= ncalls /\ ncalls < MaxCalls + MaxCalls
     /\ (Extract \/ Integers_ \/ Views \/ Scalars \/ Vectors \/ Matrices
           \/ Containers)

\* every method, called after integer() or scalar() has moved a cursor
SpecCursors == Init /\ [][NextCursors]_vars

InitServices ==
  /\ NoReader
  /\ NoServices
  /\ ncalls = 0

NextValue ==
  /\ ncalls < MaxServiceCalls
  /\ (Do_value \/ Do_value_set \/ Do_value_validate
        \/ Do_value_validate_exists \/ Do_validator_validate)

\* one services::value, from its construction on
SpecValue == InitServices /\ [][NextValue]_vars

NextConfig ==
  /\ ncalls < MaxConfigCalls
  /\ (Do_sample_config \/ Do_config_set \/ Do_config_validate)

\* one sample_config, from its construction on
SpecConfig == InitServices /\ [][NextConfig]_vars

NextChecks ==
  /\ ncalls < MaxFamilyCalls
  /\ ncalls = 0 \/ call.op = "scalar"
  /\ \/ ncalls = 0 /\ Do_scalar
     \/ Do_scalar_pos \/ Do_scalar_lb \/ Do_scalar_ub
     \/ Do_scalar_lub \/ Do_prob \/ Do_corr
     \/ Do_unit_vector \/ Do_simplex \/ Do_ordered \/ Do_positive_ordered
     \/ Do_cholesky_factor_cov \/ Do_cholesky_factor_corr \/ Do_cov_matrix
     \/ Do_corr_matrix
     \/ Do_vector_lb \/ Do_row_vector_lb \/ Do_matrix_lb \/ Do_vector_ub
     \/ Do_row_vector_ub \/ Do_matrix_ub \/ Do_vector_lub
     \/ Do_row_vector_lub \/ Do_matrix_lub

\* one call of a method that checks what it reads, after scalar() or on a
\* fresh reader, on streams without integers
SpecChecks == InitVectors /\ [][NextChecks]_vars

\* streams of reals on which exp is exact
InitOrdered ==
  /\ T \in Backends
  /\ data_r \in SeqsUpTo(OrderedRaw, MaxNr)
  /\ data_i = <<>>
  /\ pos_ = 0
  /\ int_pos_ = 0
  /\ lp = LpZero
  /\ call = NoCall
  /\ ret = NoRet
  /\ pre = [pos |-> 0, int_pos |-> 0, lp |-> LpZero]
  /\ ncalls = 0
  /\ NoServices

NextOrdered ==
  /\ ncalls < MaxFamilyCalls
  /\ (Do_scalar \/ Do_ordered_constrain \/ Do_positive_ordered_constrain)

\* scalar() and the ordered transforms
SpecOrdered == InitOrdered /\ [][NextOrdered]_vars

\* ------------------------------------------------------------- properties
Nr == Len(data_r)

Ni == Len(data_i)

Called == call.op # ""

ScalarOps ==
  {"scalar", "scalar_constrain", "scalar_pos", "scalar_pos_constrain",
   "scalar_lb", "scalar_lb_constrain", "scalar_ub", "scalar_ub_constrain",
   "scalar_lub", "scalar_lub_constrain", "scalar_offset_multiplier",
   "scalar_offset_multiplier_constrain", "prob", "prob_constrain", "corr",
   "corr_constrain"}

IntegerOps ==
  {"integer", "integer_constrain", "integer_lb", "integer_lb_constrain",
   "integer_ub", "integer_ub_constrain", "integer_lub",
   "integer_lub_constrain"}

BoundedIntegerOps == IntegerOps \ {"integer", "integer_constrain"}

VectorOps ==
  {"std_vector", "vector", "vector_constrain", "var_vector",
   "var_vector_constrain", "row_vector", "row_vector_constrain",
   "var_row_vector", "var_row_vector_constrain"}

MatrixOps ==
  {"matrix", "matrix_constrain", "var_matrix", "var_matrix_constrain",
   "cholesky_factor_cov", "var_cholesky_factor_cov", "cholesky_factor_corr",
   "var_cholesky_factor_corr", "cov_matrix", "corr_matrix", "var_corr_matrix",
   "matrix_lb", "var_matrix_lb", "matrix_lb_constrain",
   "var_matrix_lb_constrain", "matrix_ub", "var_matrix_ub",
   "matrix_ub_constrain", "var_matrix_ub_constrain", "matrix_lub",
   "var_matrix_lub", "matrix_lub_constrain", "var_matrix_lub_constrain",
   "matrix_offset_multiplier", "var_matrix_offset_multiplier",
   "matrix_offset_multiplier_constrain",
   "var_matrix_offset_multiplier_constrain"}

SimplexConstrainOps == {"simplex_constrain", "var_simplex_constrain"}

CholeskyCovConstrainOps ==
  {"cholesky_factor_cov_constrain", "var_cholesky_factor_cov_constrain"}

CovConstrainOps == {"cov_matrix_constrain", "var_cov_matrix_constrain"}

CorrConstrainOps ==
  {"cholesky_factor_corr_constrain", "var_cholesky_factor_corr_constrain",
   "corr_matrix_constrain", "var_corr_matrix_constrain"}

\* the number of reals a call is specified to consume
RawCount(c) ==
  CASE c.op \in ScalarOps -> 1
    [] c.op \in IntegerOps -> 0
    [] c.op \in MatrixOps -> c.k * c.n
    [] c.op \in SimplexConstrainOps -> c.k - 1
    [] c.op \in CholeskyCovConstrainOps ->
         (c.n * (c.n + 1)) \div 2 + (c.k - c.n) * c.n
    [] c.op \in CovConstrainOps -> c.k + (c.k * (c.k - 1)) \div 2
    [] c.op \in CorrConstrainOps -> (c.k * (c.k - 1)) \div 2
    [] OTHER -> c.k

StreamExhausted == ret.st = "throw" /\ ret.ex = "std::runtime_error"

\* C1: in every reachable state 0 <= pos <= Nr and 0 <= int_pos <= Ni, so
\* that available() and available_i() are the numbers of values left and
\* never wrap around.
C1_CursorsInRange ==
  /\ 0 <= pos_ /\ pos_ <= Nr
  /\ 0 <= int_pos_ /\ int_pos_ <= Ni
  /\ available = Nr - pos_
  /\ available_i = Ni - int_pos_

\* C2: a call that asks for more reals than remain, or for an integer when
\* none remains, fails with the stream's runtime exception and returns no
\* data.
C2_OverReadFails ==
  /\ (Called /\ RawCount(call) > Nr - pre.pos) => StreamExhausted
  /\ (call.op \in IntegerOps /\ pre.int_pos >= Ni) => StreamExhausted

\* C3: a successful scalar-family call lowers available() by 1, a
\* successful vector, row_vector or std_vector call by m, a successful
\* matrix call by m * n and a successful integer call by 0; available_i()
\* is lowered by 1 by an integer call and by 0 otherwise.
C3_AvailableDecreases ==
  (ret.st = "ok"
   /\ call.op \in ScalarOps \cup IntegerOps \cup VectorOps \cup MatrixOps) =>
    /\ available = SizeT(Nr - pre.pos) - RawCount(call)
    /\ available_i
         = SizeT(Ni - pre.int_pos) - (IF call.op \in IntegerOps THEN 1 ELSE 0)

\* C4: scalar() returns data_r[pos] and advances pos by 1 while pos < Nr,
\* and once pos = Nr every call throws the runtime exception and leaves
\* pos = Nr; integer() returns data_i[int_pos] and advances int_pos by 1,
\* and throws, leaving int_pos unchanged, iff int_pos >= Ni.  Neither moves
\* the other cursor.
C4_ExtractInOrder ==
  /\ call.op = "scalar" =>
       /\ pre.pos <= Nr
       /\ IF pre.pos < Nr
            THEN ret.st = "ok" /\ ret.raw = <<data_r[pre.pos + 1]>>
                 /\ pos_ = pre.pos + 1
            ELSE StreamExhausted /\ pos_ = Nr
       /\ int_pos_ = pre.int_pos
  /\ call.op = "integer" =>
       /\ pre.int_pos <= Ni
       /\ IF pre.int_pos < Ni
            THEN ret.st = "ok" /\ ret.i = data_i[pre.int_pos + 1]
                 /\ int_pos_ = pre.int_pos + 1
            ELSE StreamExhausted /\ int_pos_ = pre.int_pos
       /\ pos_ = pre.pos

\* the call after the last real was read: Nr successful calls, then a throw
C4_Witness ==
  /\ call.op = "scalar" /\ Nr = MaxNr /\ ncalls = Nr + 1
  /\ ret.st = "throw" /\ pos_ = Nr

\* C5: integer_lb, integer_ub, integer_lub and their _constrain forms
\* advance int_pos by exactly 1 whenever an integer remains, whether the
\* call returns, fails its bound check or has inconsistent bounds.
C5_ConsumeBeforeValidate ==
  (call.op \in BoundedIntegerOps /\ pre.int_pos < Ni) =>
    /\ ret.st \in {"ok", "throw"}
    /\ int_pos_ = pre.int_pos + 1

\* the stream [5]: integer_lb(10) fails and leaves int_pos = 1
C5_Witness ==
  /\ call.op = "integer_lb" /\ call.a = 10 /\ data_i = <<5>> /\ pre.int_pos = 0
  /\ ret.st = "throw" /\ int_pos_ = 1

LubOps == {"integer_lub", "integer_lub_constrain"}

\* C6 (as the code has it): integer_lub(lb, ub) with lb > ub throws
\* std::runtime_error with the message "lower bound must be less than or
\* equal to ub", whatever integer was consumed; with lb <= ub it throws
\* std::runtime_error with a "required value ..." message iff the consumed
\* integer i is outside [lb, ub], and otherwise returns i.  The two failures
\* have the same exception type and differ in the message only.
C6_LubFailures ==
  (call.op \in LubOps /\ pre.int_pos < Ni) =>
    LET i == data_i[pre.int_pos + 1] IN
    IF call.a > call.b
      THEN /\ StreamExhausted
           /\ ret.what = "lower bound must be less than or equal to ub"
    ELSE IF i < call.a \/ i > call.b
      THEN /\ StreamExhausted
           /\ ret.what \in {"required value greater than or equal to lb",
                            "required value less than or equal to ub"}
      ELSE ret.st = "ok" /\ ret.i = i

C6_Witness ==
  /\ call.op = "integer_lub" /\ call.a > call.b /\ pre.int_pos < Ni
  /\ ret.st = "throw" /\ int_pos_ = pre.int_pos + 1

\* C6 (as stated): the failure of integer_lub(lb, ub) with lb > ub is of a
\* kind of error distinct from the one a bound check throws on the same
\* integer.
C6_DistinctErrorKind ==
  (call.op \in LubOps /\ pre.int_pos < Ni /\ call.a > call.b) =>
    /\ ret.st = "throw"
    /\ ret.ex # integer_lb(pre, data_i[pre.int_pos + 1] + 1).ex

\* the call read inside the buffer only
ReadInBuffer == pre.pos <= pos_ /\ pos_ <= Nr

\* C7: a constrain call that takes lp and has Jacobian = false leaves lp
\* as it was (stated for the calls that stay inside the buffer).
C7_LpUnchangedWithoutJacobian ==
  (Called /\ call.haslp /\ ~call.jac /\ ReadInBuffer) => lp = pre.lp

UnitVectorConstrainOps == {"unit_vector_constrain", "var_unit_vector_constrain"}

VectorConstrainOps ==
  SimplexConstrainOps \cup UnitVectorConstrainOps
    \cup {"ordered_constrain", "var_ordered_constrain",
          "positive_ordered_constrain", "var_positive_ordered_constrain"}

C9_UnitVectorOneLess ==
  (call.op = "unit_vector_constrain" /\ call.k >= 1 /\ ReadInBuffer) =>
    pos_ = pre.pos + call.k - 1

UnitSimplexOps ==
  {"unit_vector", "var_unit_vector", "simplex", "var_simplex"}
    \cup UnitVectorConstrainOps \cup SimplexConstrainOps

\* C10: for k = 0 every unit-vector and simplex method throws
\* std::invalid_argument and leaves pos, int_pos and lp as they were.
C10_ZeroSizeRejected ==
  (call.op \in UnitSimplexOps /\ call.k = 0) =>
    /\ ret.st = "throw" /\ ret.ex = "std::invalid_argument"
    /\ pos_ = pre.pos /\ int_pos_ = pre.int_pos /\ lp = pre.lp

\* unit_vector(0) after a call that moved pos
C10_Witness ==
  /\ call.op = "unit_vector" /\ call.k = 0 /\ pre.pos > 0
  /\ ret.st = "throw" /\ pos_ = pre.pos

\* C11: for M >= N >= 0 and in every mode (without lp, with lp and
\* Jacobian on or off, plain or var_), cholesky_factor_cov_constrain(M, N)
\* advances pos by N (N + 1) / 2 + (M - N) N; the size_t computation of that
\* count does not wrap, and when that many reals remain the call returns an
\* M x N matrix.
C11_CholeskyFactorRawCount ==
  (call.op \in CholeskyCovConstrainOps /\ call.k >= call.n) =>
    /\ CholeskyFactorCount(call.k, call.n) = RawCount(call)
    /\ pos_ = SizeT(pre.pos + RawCount(call))
    /\ pre.pos + RawCount(call) <= Nr =>
         /\ ret.st = "ok" /\ pos_ = pre.pos + RawCount(call)
         /\ ret.rows = call.k /\ ret.cols = call.n
         /\ ret.raw = SubSeq(data_r, pre.pos + 1, pos_)

\* a 2 x 1 factor made from two reals, with lp and Jacobian off
C11_Witness ==
  /\ call.op = "cholesky_factor_cov_constrain" /\ call.k = 2 /\ call.n = 1
  /\ call.haslp /\ ~call.jac /\ pre.pos = 0 /\ pos_ = 2 /\ ret.st = "ok"
  /\ ret.rows = 2 /\ ret.cols = 1

\* C12: cholesky_factor_corr_constrain(K) and corr_matrix_constrain(K)
\* advance pos by K (K - 1) / 2 and cov_matrix_constrain(k) by
\* k + k (k - 1) / 2, in every mode; for K = 0 the size_t count is 0 and pos
\* stays where it was.
C12_CorrCovRawCount ==
  (call.op \in CovConstrainOps \cup CorrConstrainOps) =>
    /\ ChooseTwo(call.k) = (call.k * (call.k - 1)) \div 2
    /\ call.k = 0 => ChooseTwo(call.k) = 0 /\ pos_ = pre.pos
    /\ pos_ = SizeT(pre.pos + RawCount(call))
    /\ (ret.st = "ok" /\ pre.pos + RawCount(call) <= Nr) =>
         ret.raw = SubSeq(data_r, pre.pos + 1, pos_)

\* a 2 x 2 correlation matrix made from the second real of the stream
C12_Witness ==
  /\ call.op = "corr_matrix_constrain" /\ call.k = 2 /\ pre.pos = 1
  /\ pos_ = 2 /\ ret.st = "ok" /\ ret.rows = 2 /\ ret.cols = 2

\* the reals from pos on are at least as many as the call is to consume
Remaining(count) == pre.pos <= Nr /\ count <= Nr - pre.pos

\* C13: vector(m) and row_vector(m) with m no larger than the number of
\* reals left return a view of length m whose i-th element is data_r[p + i],
\* p being pos before the call, and advance pos by m; for m = 0 they return
\* an empty view and leave pos as it was, also when the stream is exhausted
\* (or was over-read by an earlier call).
C13_VectorViews ==
  call.op \in {"vector", "row_vector"} =>
    /\ ret.st = "ok" /\ ret.tf = "view"
    /\ ret.rows = (IF call.op = "vector" THEN call.k ELSE 1)
    /\ ret.cols = (IF call.op = "vector" THEN 1 ELSE call.k)
    /\ call.k = 0 => pos_ = pre.pos /\ ret.ptr = NullPtr
    /\ (call.k > 0 /\ Remaining(call.k)) =>
         /\ pos_ = pre.pos + call.k /\ ret.ptr = pre.pos
         /\ \A i \in 0..(call.k - 1) :
              (IF call.op = "vector" THEN Coeff(ret, i, 0) ELSE Coeff(ret, 0, i))
                = data_r[pre.pos + i + 1]

\* vector(3) on the reals 2, 3, 4 of the stream 1, 2, 3, 4, 5
C13_Witness ==
  /\ call.op = "vector" /\ call.k = 3 /\ pre.pos = 1 /\ Nr = 5 /\ pos_ = 4
  /\ ret.st = "ok" /\ RowsOf(ret) = <<<<2>>, <<3>>, <<4>>>>

C15_DocumentedExample ==
  (call.op = "matrix" /\ call.k = 2 /\ call.n = 3 /\ ret.st = "ok"
   /\ pre.pos = 0 /\ data_r = <<1, 2, 3, 4, 5, 6>>) =>
    RowsOf(ret) = <<<<1, 4>>, <<2, 5>>, <<3, 6>>>>

\* C16: every method of the scalar family (plain, positive, lb, ub, lub,
\* offset/multiplier, prob, corr), in its check form and in its constrain
\* forms without lp and with lp under either value of Jacobian, advances
\* pos by exactly 1 whenever a real remains, whether it returns or rejects
\* the real, and never moves int_pos; when no real remains it throws and
\* moves neither cursor.
C16_ScalarFamilyConsumesOne ==
  call.op \in ScalarOps =>
    /\ int_pos_ = pre.int_pos
    /\ ret.st \in {"ok", "throw"}
    /\ IF pre.pos < Nr THEN pos_ = pre.pos + 1 /\ ~StreamExhausted
       ELSE StreamExhausted /\ pos_ = pre.pos

\* scalar_lub_constrain with lp and Jacobian, after the integer was read
C16_Witness ==
  /\ call.op = "scalar_lub_constrain" /\ call.haslp /\ call.jac
  /\ pre.pos = 0 /\ pos_ = 1 /\ pre.int_pos = 1 /\ int_pos_ = 1
  /\ ret.st = "ok" /\ ncalls = 2

CheckedScalarOps == {"prob", "corr", "scalar_lb", "scalar_ub", "scalar_lub"}

\* the range the check form of a scalar method accepts
InRange(c, x) ==
  CASE c.op = "prob" -> 0 <= x /\ x <= 1
    [] c.op = "corr" -> 0 - 1 <= x /\ x <= 1
    [] c.op = "scalar_lb" -> x >= c.a
    [] c.op = "scalar_ub" -> x <= c.b
    [] c.op = "scalar_lub" -> c.a <= x /\ x <= c.b

\* C17: the check forms apply no transform.  prob() returns the real x it
\* read unchanged iff 0 <= x <= 1, corr() iff -1 <= x <= 1, scalar_lb(lb)
\* iff x >= lb, scalar_ub(ub) iff x <= ub and scalar_lub(lb, ub) iff
\* lb <= x <= ub, the bounds included; otherwise each throws
\* std::domain_error.
C17_ScalarChecks ==
  (call.op \in CheckedScalarOps /\ pre.pos < Nr) =>
    LET x == data_r[pre.pos + 1] IN
    IF InRange(call, x)
      THEN ret.st = "ok" /\ ret.raw = <<x>> /\ ret.tf = "id"
           /\ ret.rows = 1 /\ ret.cols = 1
      ELSE ret.st = "throw" /\ ret.ex = "std::domain_error"

\* corr() accepts -1, the end of its range that prob() rejects
C17_Witness ==
  /\ call.op = "corr" /\ pre.pos = 1 /\ Nr = 2 /\ data_r[2] = 0 - 1
  /\ ret.st = "ok" /\ ret.raw = <<0 - 1>> /\ pos_ = 2

NoTransformConstrainOps ==
  {"scalar_constrain", "vector_constrain", "row_vector_constrain",
   "matrix_constrain", "integer_constrain", "integer_lb_constrain",
   "integer_ub_constrain", "integer_lub_constrain"}

\* what the read method without _constrain gives for the arguments of call
\* c, started where the last call started
PlainRead(c) ==
  CASE c.op = "scalar_constrain" -> scalar(pre)
    [] c.op = "vector_constrain" -> vector(pre, c.k)
    [] c.op = "row_vector_constrain" -> row_vector(pre, c.k)
    [] c.op = "matrix_constrain" -> matrix(pre, c.k, c.n)
    [] c.op = "integer_constrain" -> integer(pre)
    [] c.op = "integer_lb_constrain" -> integer_lb(pre, c.a)
    [] c.op = "integer_ub_constrain" -> integer_ub(pre, c.b)
    [] c.op = "integer_lub_constrain" -> integer_lub(pre, c.a, c.b)

\* C18: scalar_constrain, vector_constrain, row_vector_constrain,
\* matrix_constrain, integer_constrain and integer_lb/ub/lub_constrain,
\* called with lp, leave lp as it was under either value of Jacobian, and
\* return (or throw) exactly what the read without _constrain does, leaving
\* the cursors where that read leaves them.
C18_NoTransformIgnoresLp ==
  (call.op \in NoTransformConstrainOps /\ call.haslp) =>
    /\ lp = pre.lp
    /\ ret = PlainRead(call)
    /\ pos_ = PlainRead(call).pos /\ int_pos_ = PlainRead(call).int_pos

\* vector_constrain(1, lp) with Jacobian set, after scalar_pos_constrain
\* changed lp
C18_Witness ==
  /\ call.op = "vector_constrain" /\ call.k = 1 /\ call.haslp /\ call.jac
  /\ pre.pos = 1 /\ pos_ = 2 /\ Nr = 2 /\ ret.st = "ok" /\ ret.ptr = 1
  /\ pre.lp # LpZero /\ lp = pre.lp

\* the log-Jacobian term of the call c that read the scalars xs
JTerm(c, xs) ==
  CASE c.op = "scalar_lb_constrain" -> JExp(xs)
    [] c.op = "scalar_lub_constrain" -> JLub(xs, c.a, c.b)
    [] c.op \in UnitVectorConstrainOps -> JUnitVector(xs)
    [] OTHER -> LpZero

\* C19: lp is only added to.  A call that fails, for want of reals, on its
\* arguments or on the reals it read, produces no result and leaves lp
\* exactly as the earlier calls left it, and a call that succeeds adds its
\* Jacobian term (when it takes lp and Jacobian is set) to what was there:
\* after a sequence of calls ending in a failure, lp is its initial value
\* plus the terms of the successful calls.
C19_AccumulatorNeverRolledBack ==
  Called =>
    /\ ret.st # "ok" =>
         /\ lp = pre.lp
         /\ ret.raw = <<>> /\ ret.ptr = NullPtr /\ ret.rows = 0 /\ ret.cols = 0
    /\ ret.st = "ok" =>
         lp = (IF call.haslp /\ call.jac
                 THEN LpAdd(pre.lp, JTerm(call, ret.raw)) ELSE pre.lp)

\* unit_vector_constrain(1, lp) rejects the real 0 after
\* scalar_lb_constrain(lb, lp) added its term
C19_Witness ==
  /\ call.op = "unit_vector_constrain" /\ call.k = 1 /\ call.haslp /\ call.jac
  /\ ncalls = 2 /\ pre.pos = 1 /\ pre.lp # LpZero
  /\ ret.st = "throw" /\ ret.ex = "std::domain_error" /\ lp = pre.lp

\* C20: the two cursors are independent.  Every method reading an integer
\* leaves pos as it was, and every other method leaves int_pos as it was,
\* whether the call returns or fails.
C20_CursorsIndependent ==
  Called =>
    IF call.op \in IntegerOps THEN pos_ = pre.pos ELSE int_pos_ = pre.int_pos

\* scalar_lb_constrain fails for want of a real after integer() moved
\* int_pos
C20_Witness ==
  /\ call.op = "scalar_lb_constrain" /\ pre.int_pos = 1 /\ int_pos_ = 1
  /\ pre.pos = 0 /\ Nr = 0 /\ ret.st = "throw" /\ ncalls = MaxCalls + 1

VarViewOps == {"var_vector", "var_row_vector", "var_matrix"}

\* the view the plain counterpart of the var_ call c returns when it is
\* started where the last call started
PlainView(c) ==
  CASE c.op = "var_vector" -> vector(pre, c.k)
    [] c.op = "var_row_vector" -> row_vector(pre, c.k)
    [] c.op = "var_matrix" -> matrix(pre, c.k, c.n)

\* C21: a var_ method does what its plain counterpart does on the same
\* stream state and arguments: it moves pos as far, fails in the same
\* cases and returns a result of the same shape with the same elements,
\* also for the empty shapes (0, n) and (m, 0) (stated for var_vector,
\* var_row_vector and var_matrix on calls that stay inside the buffer).
C21_VarEquivalent ==
  (call.op \in VarViewOps /\ ReadInBuffer) =>
    LET p == PlainView(call) IN
    /\ ret.st = p.st /\ pos_ = p.pos /\ int_pos_ = p.int_pos
    /\ ret.rows = p.rows /\ ret.cols = p.cols
    /\ ret.raw = SubSeq(data_r, pre.pos + 1, p.pos)

\* C22: a value is set once.  The first set(v) stores v and makes is_set_
\* true; a later set(w) throws std::runtime_error and leaves the object as
\* it was.  A constructed value has is_set_ false, and no call of set,
\* validate or validate_exists makes is_set_ false again or changes
\* default_ or has_default_.
C22_SetOnce ==
  /\ scall.op = "set" =>
       IF ~spre.obj.is_set_
         THEN /\ sret.st = "ok" /\ obj.is_set_ /\ obj.val_ = scall.x
              /\ obj = [spre.obj EXCEPT !.is_set_ = TRUE, !.val_ = scall.x]
         ELSE /\ sret.st = "throw" /\ sret.ex = "std::runtime_error"
              /\ obj = spre.obj
  /\ (scall.op = "value" /\ obj.st = "live") => ~obj.is_set_
  /\ spre.obj.st = "live" =>
       /\ obj.st = "live"
       /\ spre.obj.is_set_ => obj.is_set_
       /\ obj.default_ = spre.obj.default_
       /\ obj.has_default_ = spre.obj.has_default_

\* a second set, with another value than the one stored
C22_Witness ==
  /\ scall.op = "set" /\ spre.obj.is_set_ /\ sret.st = "throw"
  /\ obj.is_set_ /\ obj.val_ # scall.x /\ obj.has_default_

\* C23: on a value that was not set, validate() returns true and
\* validate_exists() returns false without calling the validator, whatever
\* constructor made the value; on a value that was set, both return what
\* the validator says of val_.  Neither changes the object.
C23_ValidateUnset ==
  scall.op \in {"validate", "validate_exists"} =>
    /\ obj = spre.obj /\ sret.st = "ok" /\ ~sret.void
    /\ IF ~obj.is_set_
         THEN sret.validated = <<>> /\ sret.b = (scall.op = "validate")
         ELSE /\ sret.validated = <<obj.val_>>
              /\ sret.b = Validate(obj.v_, obj.val_)

\* validate() on a value with a default and is_positive that was not set and
\* whose val_ happens to hold a number is_positive rejects
C23_Witness ==
  /\ scall.op = "validate" /\ ~obj.is_set_ /\ obj.has_default_
  /\ obj.v_ = is_positive /\ obj.val_ <= 0 /\ sret.b /\ sret.validated = <<>>

\* C24: value(d, v) throws std::invalid_argument iff v rejects d; value(),
\* value(v) and value(d) never throw and never call the validator; a value
\* that was constructed has is_set_ false, has_default_ true exactly when a
\* default was given (then default_ = d), and holds the validator given.
C24_Constructors ==
  scall.op = "value" =>
    /\ sret.st = "throw" <=>
         (scall.hasd /\ scall.hasv /\ ~Validate(scall.v, scall.x))
    /\ sret.st = "throw" =>
         sret.ex = "std::invalid_argument" /\ obj = FailedValue
    /\ ~(scall.hasd /\ scall.hasv) => sret.validated = <<>>
    /\ sret.st = "ok" =>
         /\ obj.st = "live" /\ ~obj.is_set_ /\ obj.v_ = scall.v
         /\ obj.has_default_ = scall.hasd
         /\ obj.default_ = (IF scall.hasd THEN scall.x ELSE Zero(obj.T))

\* value(0, is_positive) throws
C24_Witness ==
  /\ scall.op = "value" /\ scall.hasd /\ scall.hasv /\ scall.v = is_positive
  /\ scall.x = 0 /\ sret.st = "throw" /\ obj = FailedValue

ConfigValidated == scall.op = "sample_config::validate"

\* the member m was set to a value its validator rejects
Rejected(m) == config[m].is_set_ /\ ~Validate(config[m].v_, config[m].val_)

\* C25: sample_config::validate() returns false whenever a member that was
\* set holds a value its own validator rejects, and returns true when
\* nothing was set.
C25_ValidateRejectsInvalid ==
  ConfigValidated =>
    /\ (\E m \in Members : Rejected(m)) => ~sret.b
    /\ (\A m \in Members : ~config[m].is_set_) => sret.b

\* the algorithm in force: the one set or, when none was set, the default
EffectiveAlgorithm ==
  IF config.algorithm_.is_set_ THEN config.algorithm_.val_
  ELSE config.algorithm_.default_

\* C28: sample_config::validate() returns false when the algorithm in force
\* (the one set, or the default "nuts" when none was set) is "nuts" and
\* int_time was set, and when it is "hmc" and max_treedepth was set.
C28_EffectiveAlgorithm ==
  ConfigValidated =>
    /\ (EffectiveAlgorithm = "nuts" /\ config.int_time_.is_set_) => ~sret.b
    /\ (EffectiveAlgorithm = "hmc" /\ config.max_treedepth_.is_set_) => ~sret.b

ValidatorCalled == scall.op = "v_.validate"

\* what the validator of the value must answer for x
Verdict(v, x) ==
  CASE v.kind = "is_positive" -> x > 0
    [] v.kind = "one_of" -> \E n \in 1..Len(v.valid_) : v.valid_[n] = x
    [] v.kind = "noop" -> TRUE

\* two calls of the validator in a row, with the same argument
RepeatedValidate ==
  /\ ValidatorCalled /\ ValidatorCalled'
  /\ ncalls' = ncalls + 1
  /\ scall'.x = scall.x

\* C26: the validators are pure: is_positive accepts exactly x > 0 (int and
\* floating), one_of accepts exactly the one to four values it was built
\* from, noop accepts everything; a call changes nothing, and a repeated
\* call with the same argument gives the same result.
C26_ValidatorsPure ==
  /\ [](ValidatorCalled =>
          /\ sret.st = "ok" /\ ~sret.void
          /\ sret.b = Verdict(obj.v_, scall.x)
          /\ obj = spre.obj
          /\ obj.v_.kind = "one_of" => Len(obj.v_.valid_) \in 1..4)
  /\ [][RepeatedValidate => sret'.b = sret.b /\ obj' = obj]_vars

\* is_positive, held by a value<double>, was asked about 0 twice and
\* rejected it both times
C26_Witness ==
  /\ ValidatorCalled /\ spre.obj = obj /\ ncalls = 3
  /\ obj.T = "double" /\ obj.v_.kind = "is_positive"
  /\ scall.x = 0 /\ ~sret.b

\* C30: std_vector(m) with 1 <= m <= available() references no element of
\* data_r_ at an index of Nr or more while it builds its result, also when
\* the read ends at the end of the buffer; it returns the m reals from pos
\* on and advances pos by m; std_vector(0) returns an empty vector and
\* touches neither the buffer nor pos.
C30_StdVectorInBounds ==
  call.op = "std_vector" =>
    /\ (call.k >= 1 /\ Remaining(call.k)) =>
         /\ \A i \in std_vector_refs(pre, call.k) : i < Nr
         /\ ret.st = "ok"
         /\ ret.raw = SubSeq(data_r, pre.pos + 1, pre.pos + call.k)
         /\ pos_ = pre.pos + call.k
    /\ call.k = 0 =>
         /\ std_vector_refs(pre, call.k) = {}
         /\ ret.st = "ok" /\ ret.raw = <<>>
         /\ pos_ = pre.pos

ScalarCheckOps ==
  {"scalar_pos", "scalar_lb", "scalar_ub", "scalar_lub", "prob", "corr"}

VectorCheckOps ==
  {"simplex", "unit_vector", "ordered", "positive_ordered", "vector_lb",
   "vector_ub", "vector_lub", "row_vector_lb", "row_vector_ub",
   "row_vector_lub"}

MatrixCheckOps == {"cholesky_factor_cov", "matrix_lb", "matrix_ub", "matrix_lub"}

SquareCheckOps == {"cholesky_factor_corr", "cov_matrix", "corr_matrix"}

CheckOps ==
  ScalarCheckOps \cup VectorCheckOps \cup MatrixCheckOps \cup SquareCheckOps

\* the number of reals the check form c reads
CheckedCount(c) ==
  CASE c.op \in ScalarCheckOps -> 1
    [] c.op \in VectorCheckOps -> c.k
    [] c.op \in MatrixCheckOps -> c.k * c.n
    [] c.op \in SquareCheckOps -> c.k * c.k

DomainViolation == ret.st = "throw" /\ ret.ex = "std::domain_error"

\* C29: the check forms on reals consume before they validate: when the
\* check of scalar_pos, scalar_lb/ub/lub, prob, corr, simplex, unit_vector,
\* ordered, positive_ordered, cholesky_factor_cov, cholesky_factor_corr,
\* cov_matrix, corr_matrix or a vector/row_vector/matrix _lb/_ub/_lub fails
\* with std::domain_error, pos has advanced by the whole raw count (1, k,
\* M * N, K * K, m, m * n) and is not put back.
C29_ConsumeBeforeValidate ==
  (call.op \in CheckOps /\ DomainViolation) =>
    pos_ = SizeT(pre.pos + CheckedCount(call))

\* after scalar() read the first real, simplex(1) read the second, 2, and
\* rejected it, leaving pos at 2
C29_Witness ==
  /\ call.op = "simplex" /\ call.k = 1 /\ DomainViolation
  /\ pre.pos = 1 /\ pos_ = 2 /\ Nr = 2 /\ ncalls = 2

StrictlyIncreasing(y) == \A i \in 2..Len(y) : y[i] > y[i - 1]

\* C27: ordered_constrain(k) returns y with y_1 = x_1 and
\* y_i = y_(i-1) + exp(x_i), strictly increasing whatever the raw reals x
\* are; positive_ordered_constrain(k) returns the same with
\* y_1 = exp(x_1) > 0.  (Stated for reads inside the buffer.)
C27_OrderedStrictlyIncreasing ==
  (ret.st = "ok" /\ call.k >= 1 /\ Remaining(call.k)) =>
    /\ call.op \in {"ordered_constrain", "var_ordered_constrain"} =>
         LET y == ordered_constrain_value(ret.raw) IN
         /\ ret.tf = "ordered_constrain" /\ Len(y) = call.k
         /\ y[1] = ret.raw[1]
         /\ StrictlyIncreasing(y)
    /\ call.op \in {"positive_ordered_constrain",
                    "var_positive_ordered_constrain"} =>
         LET y == positive_ordered_constrain_value(ret.raw) IN
         /\ ret.tf = "positive_ordered_constrain" /\ Len(y) = call.k
         /\ y[1] = exp(ret.raw[1]) /\ y[1] > 0
         /\ StrictlyIncreasing(y)

=============================================================================
